---- MODULE Spec2Model ----
(***************************************************************************)
(* Pause / resume of Kubernetes workloads by label selector                *)
(* (src/src/deployment_action/pause_service.rs).                           *)
(*                                                                         *)
(* The cluster is a finite set of workloads (Deployment, StatefulSet,      *)
(* CronJob) with their pods; one PauseServiceAction, built once, is        *)
(* driven through on_pause / unpause_if_needed calls.  Every Kubernetes    *)
(* API call of the executor is one step, so that the cluster's own         *)
(* controllers, API failures and the enclosing tokio timeout interleave    *)
(* with it at every await point.                                           *)
(*                                                                         *)
(* The pause of an EKS cluster                                             *)
(* (src/src/infrastructure_action/eks/cluster_pause.rs) is a second        *)
(* program with its own variables and its own specification, EksSpec:      *)
(* one step per call pause_eks_cluster makes to a collaborator.            *)
(*                                                                         *)
(* Three more programs follow the same pattern: the Karpenter node pool    *)
(* requirements (eks/helm_charts/karpenter_configuration.rs,               *)
(* KarpenterSpec), the creation of a GKE cluster (gke/cluster_create.rs,   *)
(* GkeSpec) and the Scaleway container registry                            *)
(* (container_registry/scaleway_container_registry.rs, ScalewaySpec).      *)
(***************************************************************************)
EXTENDS Integers, Sequences, FiniteSets, TLC

\* ------------------------------------------------------------------ bounds
NumWorkloads == 2
MaxReplicas == 2
MaxCalls == 2
MaxNodeGroups == 2
MaxDesiredNodes == 1
MaxPods == 1
MaxTimeoutInMin == 2

\* -------------------------------------------------------------- vocabulary
None == <<>>
Workloads == 1..NumWorkloads
Namespaces == {"ns1", "ns2"}
TargetNamespace == "ns1"
WorkloadLabel == "app=simple"
Selectors == {"app=simple", "app=totototo"}
TimeoutSecs == {30}

K8sResourceType == {"StateFulSet", "Deployment", "CronJob", "DaemonSet", "Job"}
ScalableKinds == {"StateFulSet", "Deployment"}
WorkloadKinds == {"StateFulSet", "Deployment", "CronJob"}

VARIABLES
    self,        \* the PauseServiceAction: selector, k8s_resource_type, timeout, cluster-wide flag
    workloads,   \* workload -> metadata (kind, namespace, name, labels); never changes
    replicas,    \* workload -> spec.replicas            (Deployment / StatefulSet)
    suspend,     \* workload -> spec.suspend             (CronJob)
    status,      \* workload -> None or [replicas, ready_replicas]
    pods,        \* workload -> number of its pods that exist (terminating ones included)
    op,          \* entry point of the current call: "none", "on_pause", "unpause_if_needed", a hook
    desired,     \* desired_size handed to pause_service
    pc,          \* await point of the current call
    listed,      \* result of the workload listing: snapshots, in listing order
    idx,         \* position of the for loop in listed
    api,         \* kinds of API call the current call has issued
    patched,     \* workloads the current call has patched
    podObs,      \* what the last pod listing of the current call returned
    ret,         \* what block_on(timeout(self.timeout, fut)) gave: "Ok", "KubeErr", "Elapsed"
    result,      \* what the current call returned
    prev,        \* the call before the current one: its entry point and what it returned
    calls        \* number of calls made so far

cluster == <<replicas, suspend, status, pods>>
call == <<op, desired, pc, listed, idx, api, patched, podObs, ret, result, prev, calls>>

\* pause_eks_cluster: its arguments, its locals and the calls it has made.
VARIABLES
    kubernetes,                       \* the EKS: is_karpenter_enabled, nodes_groups, is_dry_run_deploy
    infra_pc,                         \* the call pause_eks_cluster is about to make
    collaborator_calls,               \* the calls made so far: [fn, args, ok], in order
    aws_eks_client,                   \* Option
    node_groups_with_desired_states,  \* Option of the sizing collaborator's answer
    pods_list,                        \* Option of the pod list the timeout is derived from
    cluster_upgrade_timeout_in_min,   \* Option
    tera_context,                     \* Option of the template context
    pause_result                      \* what pause_eks_cluster returned: "pending", "Ok", "Err"

\* Two threads driving one call each: the variables above describe the call of the
\* thread that takes the next step, `other` holds the call of the other thread
\* (None when a single thread drives the action).
VARIABLES
    other

\* A pure function of the program applied to arguments: None, or the function,
\* its arguments and, once it is evaluated, its value.
VARIABLES
    evaluation

\* create_gke_cluster (src/src/infrastructure_action/gke/cluster_create.rs): a
\* record of the cluster's dry-run flag, the step the creation is about to take,
\* the steps taken so far with their outcome, and what the creation returned.
VARIABLES
    gke

\* A call on a ScalewayCR (src/src/container_registry/scaleway_container_registry.rs):
\* a record of the function called, its argument, the step it is about to take,
\* the requests sent so far, what it returned, and the tags the registry stores
\* for the image the call is about.
VARIABLES
    scaleway_cr

infra == <<kubernetes, infra_pc, collaborator_calls, aws_eks_client,
           node_groups_with_desired_states, pods_list, cluster_upgrade_timeout_in_min,
           tera_context, pause_result>>

vars == <<self, workloads, replicas, suspend, status, pods,
          op, desired, pc, listed, idx, api, patched, podObs, ret, result, prev, calls,
          kubernetes, infra_pc, collaborator_calls, aws_eks_client,
          node_groups_with_desired_states, pods_list, cluster_upgrade_timeout_in_min,
          tera_context, pause_result, other, evaluation, gke, scaleway_cr>>

\* ---------------------------------------------------------------- helpers
RECURSIVE SetToSeq(_)
SetToSeq(S) ==
    IF S = {} THEN <<>>
    ELSE LET m == CHOOSE x \in S : \A y \in S : x <= y
         IN <<m>> \o SetToSeq(S \ {m})

RECURSIVE SumPods(_, _)
SumPods(S, p) ==
    IF S = {} THEN 0
    ELSE LET m == CHOOSE x \in S : TRUE
         IN p[m] + SumPods(S \ {m}, p)

Min(a, b) == IF a <= b THEN a ELSE b

\* --------------------------------------------------------- Option<T> values
\* None is the empty tuple, Some(x) the one-element tuple.
Some(x) == <<x>>
IsSome(o) == o # None
Unwrap(o) == o[1]
UnwrapOr(o, d) == IF IsSome(o) THEN o[1] ELSE d

\* ------------------------------------------------- objects as the API shows them
\* Go's omitempty: a zero count is left out of the JSON, so k8s-openapi reads
\* it as None.  DeploymentStatus.replicas and ready_replicas are Option<i32>;
\* StatefulSetStatus.replicas is a plain i32, ready_replicas an Option<i32>.
OmitEmpty(n) == IF n = 0 THEN None ELSE Some(n)

ApiStatus(kind, st) ==
    IF st = None THEN None
    ELSE Some([replicas |-> IF kind = "Deployment"
                            THEN OmitEmpty(st[1].replicas) ELSE st[1].replicas,
               ready_replicas |-> OmitEmpty(st[1].ready_replicas)])

\* The object a list or a get of workload w returns in the current state.
Object(w) ==
    [id |-> w,
     metadata |-> [namespace |-> workloads[w].namespace, name |-> workloads[w].name],
     spec |-> IF workloads[w].kind = "CronJob"
              THEN Some([suspend |-> Some(suspend[w])])
              ELSE Some([replicas |-> Some(replicas[w])]),
     status |-> IF workloads[w].kind = "CronJob" THEN None
                ELSE ApiStatus(workloads[w].kind, status[w])]

\* ------------------------------------------------------ convergence predicates
\* `nb_ready_replicas as i32`: a usize up to i32::MAX keeps its value, and every
\* integer of the model is one (the callers pass 0, the tests 0 and 1).
as_i32(n) == n

\* Mutant: an absent status or count never matches.
has_deployment_ready_replicas_present(nb_ready_replicas, deployment) ==
    LET st == IF IsSome(deployment) THEN Unwrap(deployment).status ELSE None
        ready == IF IsSome(st) THEN Unwrap(st).ready_replicas ELSE None
    IN ready = Some(as_i32(nb_ready_replicas))

\* deployment.and_then(|d| d.status.as_ref()).and_then(|s| s.ready_replicas.as_ref())
\*     .unwrap_or(&0) == &(nb_ready_replicas as i32)
has_deployment_ready_replicas(nb_ready_replicas, deployment) ==
    LET st == IF IsSome(deployment) THEN Unwrap(deployment).status ELSE None
        ready == IF IsSome(st) THEN Unwrap(st).ready_replicas ELSE None
    IN UnwrapOr(ready, 0) = as_i32(nb_ready_replicas)

has_statefulset_ready_replicas(nb_ready_replicas, statefulset) ==
    LET st == IF IsSome(statefulset) THEN Unwrap(statefulset).status ELSE None
        ready == IF IsSome(st) THEN Unwrap(st).ready_replicas ELSE None
    IN UnwrapOr(ready, 0) = as_i32(nb_ready_replicas)

\* cron_job.and_then(|d| d.spec.as_ref()).and_then(|spec| spec.suspend.as_ref())
\*     == Some(&suspend)
has_cron_job_suspended_value(suspend_value, cron_job) ==
    LET sp == IF IsSome(cron_job) THEN Unwrap(cron_job).spec ELSE None
        sv == IF IsSome(sp) THEN Unwrap(sp).suspend ELSE None
    IN sv = Some(suspend_value)

\* -------------------------------------------------------------- patch builder
\* Mutant: the scale patch asks for one replica more than desired.
get_patch_merge_one_more(selector, desired_size) ==
    [list_params |-> [labels |-> selector],
     patch |-> [type |-> "Merge", replicas |-> desired_size + 1]]

get_patch_merge(selector, desired_size) ==
    [list_params |-> [labels |-> selector],
     patch |-> [type |-> "Merge", replicas |-> desired_size]]

\* Mutant: the suspend patch always suspends, whatever value is asked for.
get_patch_suspend_always_true(selector, desired_suspend_value) ==
    [list_params |-> [labels |-> selector],
     patch |-> [type |-> "Json", op |-> "replace", path |-> <<"spec", "suspend">>,
                value |-> TRUE]]

get_patch_suspend(selector, desired_suspend_value) ==
    [list_params |-> [labels |-> selector],
     patch |-> [type |-> "Json", op |-> "replace", path |-> <<"spec", "suspend">>,
                value |-> desired_suspend_value]]

\* ---------------------------------------------------------- listing and scope
\* Api::all when cluster-wide resources are allowed, Api::namespaced otherwise.
InScope(w, namespace, is_cluster_wide) ==
    is_cluster_wide \/ workloads[w].namespace = Some(namespace)

Selected(w, list_params) == list_params.labels \in workloads[w].labels

\* Api<K>::list(&list_params): the workloads of kind K in scope that carry the label.
Matched(kind, namespace, is_cluster_wide, list_params) ==
    {w \in Workloads : /\ workloads[w].kind = kind
                       /\ InScope(w, namespace, is_cluster_wide)
                       /\ Selected(w, list_params)}

\* Of a listed object the loops read the metadata and, in
\* unpause_service_if_needed, the status: the snapshot keeps what is read.
Snapshot(o, reads_status) ==
    [id |-> o.id, metadata |-> o.metadata,
     status |-> IF reads_status THEN o.status ELSE None]

ListWorkloads(kind, namespace, is_cluster_wide, list_params, reads_status) ==
    LET ids == SetToSeq(Matched(kind, namespace, is_cluster_wide, list_params))
    IN [i \in 1..Len(ids) |-> Snapshot(Object(ids[i]), reads_status)]

\* Api<Pod>::list(&list_params).items.len(): every pod in scope carrying the label.
PodCount(namespace, is_cluster_wide, list_params) ==
    SumPods({w \in Workloads : InScope(w, namespace, is_cluster_wide)
                               /\ Selected(w, list_params)}, pods)

\* ------------------------------------------------------------ initial states
\* PauseServiceAction::new (Deployment or StateFulSet, never cluster-wide) and
\* PauseServiceAction::new_with_resource_type (any kind, any scope).
Actions ==
    [selector : Selectors, k8s_resource_type : K8sResourceType,
     timeout : TimeoutSecs, is_cluster_wide_resources_allowed : BOOLEAN]

\* The actions of a kind that is patched, on the label the workloads carry.
PatchingActions ==
    {a \in Actions : a.selector = WorkloadLabel /\ a.k8s_resource_type \in WorkloadKinds}

\* Every workload of the cluster has a name and a namespace and carries the label;
\* the last one may live outside the target namespace.  A workload is of the
\* action's kind or of one other kind (a kind the action never lists).
OtherKind(kind) == IF kind = "Deployment" THEN "StateFulSet" ELSE "Deployment"

KindsBeside(kind) ==
    IF kind \in WorkloadKinds THEN {kind, OtherKind(kind)} ELSE {"Deployment", "CronJob"}

Layouts(kind) ==
    {l \in [Workloads -> [kind : KindsBeside(kind), namespace : {Some(n) : n \in Namespaces},
                          name : {Some(w) : w \in Workloads}, labels : {{WorkloadLabel}}]] :
        \A w \in Workloads : /\ l[w].name = Some(w)
                             /\ w < NumWorkloads => l[w].namespace = Some(TargetNamespace)}

NoResult == [ret |-> "pending"]

\* The EKS clusters pause_eks_cluster is called with.
Clusters ==
    [is_karpenter_enabled : BOOLEAN,
     nodes_groups : {[i \in 1..n |-> i] : n \in 0..MaxNodeGroups},
     is_dry_run_deploy : BOOLEAN]

\* pause_eks_cluster has not been called: no call made, no local bound.
NotStarted ==
    /\ infra_pc = "idle"
    /\ collaborator_calls = <<>>
    /\ aws_eks_client = None
    /\ node_groups_with_desired_states = None
    /\ pods_list = None
    /\ cluster_upgrade_timeout_in_min = None
    /\ tera_context = None
    /\ pause_result = "pending"

\* create_gke_cluster has not been called.
NoGkeCreation ==
    gke = [is_dry_run_deploy |-> FALSE, pc |-> "idle", calls |-> <<>>,
           result |-> [ret |-> "pending"], creations |-> 0]

\* No function of the ScalewayCR has been called.
NoRegistryCall ==
    scaleway_cr = [fn |-> "none", arg |-> <<>>, pc |-> "idle", requests |-> <<>>,
                   tries |-> 0, result |-> [ret |-> "pending"], tags |-> {}]

\* The cluster at rest: any desired state, the controllers have converged.
ClusterAtRest ==
    /\ replicas \in [Workloads -> 0..MaxReplicas]
    /\ suspend \in [Workloads -> BOOLEAN]
    /\ \A w \in Workloads :
          IF workloads[w].kind = "CronJob"
          THEN replicas[w] = 0
          ELSE suspend[w] = FALSE
    \* the controllers have converged: as many pods as desired, all ready
    /\ status = [w \in Workloads |->
                    IF workloads[w].kind = "CronJob" THEN None
                    ELSE Some([replicas |-> replicas[w], ready_replicas |-> replicas[w]])]
    /\ pods = [w \in Workloads |-> replicas[w]]

\* No call made yet.
NoCallMade ==
    /\ op = "none"
    /\ desired = 0
    /\ pc = "idle"
    /\ listed = <<>>
    /\ idx = 0
    /\ api = {}
    /\ patched = {}
    /\ podObs = None
    /\ ret = "pending"
    /\ result = NoResult
    /\ prev = [op |-> "none", ret |-> "pending", result |-> NoResult]
    /\ calls = 0

\* The PauseServiceAction after construction, no call made yet, and the cluster.
PauseServiceInit ==
    /\ self \in Actions
    /\ workloads \in Layouts(self.k8s_resource_type)
    /\ ClusterAtRest
    /\ NoCallMade

Init ==
    /\ kubernetes = [is_karpenter_enabled |-> FALSE, nodes_groups |-> <<>>,
                     is_dry_run_deploy |-> FALSE]
    /\ NotStarted
    /\ NoGkeCreation
    /\ NoRegistryCall
    /\ other = None
    /\ evaluation = None
    /\ PauseServiceInit

\* --------------------------------------------------------- the Kubernetes side
\* Scaling down: the controller marks the surplus pods as terminating; they leave
\* status.replicas and status.ready_replicas at once but still exist.
ControllerScaleDown(w) ==
    /\ IsSome(status[w])
    /\ status[w][1].replicas > replicas[w]
    /\ status' = [status EXCEPT ![w] =
                    Some([replicas |-> replicas[w],
                          ready_replicas |-> Min(status[w][1].ready_replicas, replicas[w])])]
    /\ UNCHANGED <<gke, scaleway_cr, infra, other, evaluation, self, workloads, replicas, suspend, pods, call>>

\* A terminating pod is gone.
PodDeleted(w) ==
    /\ IsSome(status[w])
    /\ status[w][1].replicas <= replicas[w]
    /\ pods[w] > replicas[w]
    /\ pods' = [pods EXCEPT ![w] = pods[w] - 1]
    /\ UNCHANGED <<gke, scaleway_cr, infra, other, evaluation, self, workloads, replicas, suspend, status, call>>

\* Scaling up: the controller creates a missing pod, which is counted in
\* status.replicas and status.ready_replicas once it runs.
PodCreated(w) ==
    /\ IsSome(status[w])
    /\ status[w][1].replicas <= replicas[w]
    /\ pods[w] < replicas[w]
    /\ pods' = [pods EXCEPT ![w] = pods[w] + 1]
    /\ UNCHANGED <<gke, scaleway_cr, infra, other, evaluation, self, workloads, replicas, suspend, status, call>>

PodReady(w) ==
    /\ IsSome(status[w])
    /\ status[w][1].replicas < Min(pods[w], replicas[w])
    /\ status' = [status EXCEPT ![w] =
                    Some([replicas |-> status[w][1].replicas + 1,
                          ready_replicas |-> status[w][1].ready_replicas + 1])]
    /\ UNCHANGED <<gke, scaleway_cr, infra, other, evaluation, self, workloads, replicas, suspend, pods, call>>

\* ------------------------------------------------------- errors and results
\* EngineError::new_k8s_scale_replicas(event_details, selector, namespace,
\* requested_replicas, raw_error): the one constructor both failure arms call.
new_k8s_scale_replicas(selector, namespace, requested_replicas, raw_error) ==
    [ctor |-> "new_k8s_scale_replicas", selector |-> selector, namespace |-> namespace,
     requested_replicas |-> requested_replicas, raw_error |-> raw_error]

\* CommandError::new_from_safe_message(kube_err.to_string())
KubeErrMessage == [text |-> "kube_err", secs |-> 0]
\* CommandError::new_from_safe_message(format!("Timeout of {}s exceeded while ...", secs))
TimeoutMessage(what, secs) == [text |-> what, secs |-> secs]

\* Mutant: the timeout arm reports the kube error message (a copied arm).
on_pause_match_copied_arm(r) ==
    IF r = "Ok" THEN [ret |-> "Ok"]
    ELSE [ret |-> "Err",
          error |-> new_k8s_scale_replicas(self.selector, TargetNamespace, 0, KubeErrMessage)]

\* The match on block_on(timeout(self.timeout, fut)) in on_pause:
\* r is "Ok" for Ok(Ok(())), "KubeErr" for Ok(Err(_)), "Elapsed" for Err(_).
on_pause_match(r) ==
    IF r = "Ok" THEN [ret |-> "Ok"]
    ELSE IF r = "KubeErr"
    THEN [ret |-> "Err",
          error |-> new_k8s_scale_replicas(self.selector, TargetNamespace, 0, KubeErrMessage)]
    ELSE [ret |-> "Err",
          error |-> new_k8s_scale_replicas(self.selector, TargetNamespace, 0,
                        TimeoutMessage("scaling down service", self.timeout))]

\* The same match in unpause_if_needed.
unpause_if_needed_match(r) ==
    IF r = "Ok" THEN [ret |-> "Ok"]
    ELSE IF r = "KubeErr"
    THEN [ret |-> "Err",
          error |-> new_k8s_scale_replicas(self.selector, TargetNamespace, 0, KubeErrMessage)]
    ELSE [ret |-> "Err",
          error |-> new_k8s_scale_replicas(self.selector, TargetNamespace, 0,
                        TimeoutMessage("un-pausing service", self.timeout))]

\* pause_service called by itself under tokio::time::timeout(timeout, ..), as the
\* tests call it (`.await??`): Ok, or the error of either layer.
pause_service_result(r) == [ret |-> IF r = "Ok" THEN "Ok" ELSE "Err"]

Returned(r) ==
    IF op = "on_pause" THEN on_pause_match(r)
    ELSE IF op = "pause_service" THEN pause_service_result(r)
    ELSE unpause_if_needed_match(r)

\* The call returns: the future's outcome r goes through the entry point's match.
Return(r) ==
    /\ pc' = "done"
    /\ ret' = r
    /\ result' = Returned(r)

\* ------------------------------------------------------------- the executor
Kind == self.k8s_resource_type

\* The call runs pause_service (through on_pause or by itself), else
\* unpause_service_if_needed.
pauses == op \in {"on_pause", "pause_service"}

\* (list_params, patch_params, patch) of the current call.
Params ==
    IF pauses
    THEN IF Kind = "CronJob" THEN get_patch_suspend(self.selector, desired = 0)
         ELSE get_patch_merge(self.selector, desired)
    ELSE IF Kind = "CronJob" THEN get_patch_suspend(self.selector, FALSE)
         ELSE get_patch_merge(self.selector, 1)

\* Mutant: no guard, every listed workload is re-scaled.
needs_unpause_unguarded(kind, o) == TRUE

\* Mutant: an absent status or count is taken as running (unwrap_or(1)).
needs_unpause_absent_is_running(kind, o) ==
    IF kind = "StateFulSet"
    THEN UnwrapOr(IF IsSome(o.status) THEN Some(Unwrap(o.status).replicas) ELSE None, 1) = 0
    ELSE IF kind = "Deployment"
    THEN UnwrapOr(IF IsSome(o.status) THEN Unwrap(o.status).replicas ELSE None, 1) = 0
    ELSE TRUE

\* The guard of unpause_service_if_needed on a listed object.
\* StatefulSet: status.map(|s| s.replicas).unwrap_or(0) == 0
\* Deployment:  status.and_then(|s| s.replicas).unwrap_or(0) == 0
needs_unpause(kind, o) ==
    IF kind = "StateFulSet"
    THEN UnwrapOr(IF IsSome(o.status) THEN Some(Unwrap(o.status).replicas) ELSE None, 0) = 0
    ELSE IF kind = "Deployment"
    THEN UnwrapOr(IF IsSome(o.status) THEN Unwrap(o.status).replicas ELSE None, 0) = 0
    ELSE TRUE

\* if let (Some(namespace), Some(name)) = (metadata.namespace, metadata.name)
has_namespace_and_name(o) == IsSome(o.metadata.namespace) /\ IsSome(o.metadata.name)

\* Mutant: the handle is made for the namespace of the call.
handle_namespace_of_call(o, namespace) == namespace

\* Api::namespaced(kube.clone(), &namespace) in the loop body: the handle is made
\* for the namespace of the listed object, which shadows the one of the call.
handle_namespace(o, namespace) == Unwrap(o.metadata.namespace)

\* The workloads of a kind a namespaced handle reaches under a name.
Named(kind, namespace, name) ==
    {w \in Workloads : /\ workloads[w].kind = kind
                       /\ workloads[w].namespace = Some(namespace)
                       /\ workloads[w].name = Some(name)}

\* The workloads the loop body's patch and wait on the listed object o address.
Addressed(o) ==
    Named(self.k8s_resource_type, handle_namespace(o, TargetNamespace), Unwrap(o.metadata.name))

\* Whether the loop body patches the listed object o.
patches(o) ==
    /\ op = "unpause_if_needed" => needs_unpause(Kind, o)
    /\ has_namespace_and_name(o)

\* Mutant: the loop ends at the first listed object it does not patch.
NextToPatchOrBreak(l, i) ==
    IF i <= Len(l) /\ patches(l[i]) THEN i ELSE Len(l) + 1

\* The for loop, from position i on: the first listed object it patches, or past the end.
NextToPatch(l, i) ==
    IF \E j \in i..Len(l) : patches(l[j])
    THEN CHOOSE j \in i..Len(l) : patches(l[j]) /\ \A k \in i..(j - 1) : ~patches(l[k])
    ELSE Len(l) + 1

\* Mutant: the resume polls the pods after its loop as the pause does.
polls_pods_on_resume == Kind \in ScalableKinds

\* pause_service polls the pods after the loop for StateFulSet and Deployment only;
\* unpause_service_if_needed never does.
polls_pods == pauses /\ Kind \in ScalableKinds

\* Where the call stands once the loop is at position j of the listing l.
Continue(l, j) ==
    IF j <= Len(l)
    THEN /\ pc' = "patch"
         /\ idx' = j
         /\ UNCHANGED <<ret, result>>
    ELSE IF polls_pods
    THEN /\ pc' = "pods"
         /\ idx' = j
         /\ UNCHANGED <<ret, result>>
    ELSE /\ idx' = j
         /\ Return("Ok")

\* Mutant: DaemonSet and Job are listed like the other kinds.
BeginListsEveryKind(o, size) ==
    /\ pc \in {"idle", "done"}
    /\ calls < MaxCalls
    /\ calls' = calls + 1
    /\ prev' = [op |-> op, ret |-> ret, result |-> result]
    /\ op' = o
    /\ desired' = size
    /\ listed' = <<>>
    /\ idx' = 0
    /\ api' = {}
    /\ patched' = {}
    /\ podObs' = None
    /\ pc' = "list"
    /\ ret' = "pending"
    /\ result' = NoResult
    /\ UNCHANGED <<gke, scaleway_cr, infra, other, evaluation, self, workloads, cluster>>

Begin(o, size) ==
    /\ pc \in {"idle", "done"}
    /\ calls < MaxCalls
    /\ calls' = calls + 1
    /\ prev' = [op |-> op, ret |-> ret, result |-> result]
    /\ op' = o
    /\ desired' = size
    /\ listed' = <<>>
    /\ idx' = 0
    /\ api' = {}
    /\ patched' = {}
    /\ podObs' = None
    /\ IF Kind \in {"DaemonSet", "Job"}
       THEN /\ pc' = "done"
            /\ ret' = "Ok"
            /\ result' = IF o = "on_pause" THEN on_pause_match("Ok")
                         ELSE unpause_if_needed_match("Ok")
       ELSE /\ pc' = "list"
            /\ ret' = "pending"
            /\ result' = NoResult
    /\ UNCHANGED <<gke, scaleway_cr, infra, other, evaluation, self, workloads, cluster>>

\* PauseServiceAction::on_pause: pause_service with desired size 0 under self.timeout.
OnPause == Begin("on_pause", 0)

\* PauseServiceAction::unpause_if_needed.
UnpauseIfNeeded == Begin("unpause_if_needed", 0)

\* A hook whose body is Ok(()): the call returns at once, the target is not used.
Hook(h) ==
    /\ pc \in {"idle", "done"}
    /\ calls < MaxCalls
    /\ calls' = calls + 1
    /\ prev' = [op |-> op, ret |-> ret, result |-> result]
    /\ op' = h
    /\ desired' = 0
    /\ listed' = <<>>
    /\ idx' = 0
    /\ api' = {}
    /\ patched' = {}
    /\ podObs' = None
    /\ pc' = "done"
    /\ ret' = "Ok"
    /\ result' = [ret |-> "Ok"]
    /\ UNCHANGED <<gke, scaleway_cr, infra, other, evaluation, self, workloads, cluster>>

\* PauseServiceAction::on_create, on_delete, on_restart.
OnCreate == Hook("on_create")

\* Mutant: on_delete delegates to the executor like on_pause.
OnDeleteDelegates ==
    /\ pc \in {"idle", "done"}
    /\ calls < MaxCalls
    /\ calls' = calls + 1
    /\ prev' = [op |-> op, ret |-> ret, result |-> result]
    /\ op' = "on_delete"
    /\ desired' = 0
    /\ listed' = <<>>
    /\ idx' = 0
    /\ api' = {}
    /\ patched' = {}
    /\ podObs' = None
    /\ pc' = "list"
    /\ ret' = "pending"
    /\ result' = NoResult
    /\ UNCHANGED <<gke, scaleway_cr, infra, other, evaluation, self, workloads, cluster>>

OnDelete == Hook("on_delete")

OnRestart == Hook("on_restart")

\* Mutant: an empty listing is reported as a kube error (not found).
ListOkEmptyIsError ==
    /\ pc = "list"
    /\ LET l == ListWorkloads(Kind, TargetNamespace,
                              self.is_cluster_wide_resources_allowed, Params.list_params,
                              op = "unpause_if_needed")
       IN /\ listed' = l
          /\ IF Len(l) = 0
             THEN /\ idx' = 1
                  /\ Return("KubeErr")
             ELSE Continue(l, NextToPatch(l, 1))
    /\ api' = api \cup {"list"}
    /\ UNCHANGED <<gke, scaleway_cr, infra, other, evaluation, self, workloads, cluster, op, desired, patched, podObs, prev, calls>>

\* Api<K>::list(&list_params).await succeeds.
ListOk ==
    /\ pc = "list"
    /\ LET l == ListWorkloads(Kind, TargetNamespace,
                              self.is_cluster_wide_resources_allowed, Params.list_params,
                              op = "unpause_if_needed")
       IN /\ listed' = l
          /\ Continue(l, NextToPatch(l, 1))
    /\ api' = api \cup {"list"}
    /\ UNCHANGED <<gke, scaleway_cr, infra, other, evaluation, self, workloads, cluster, op, desired, patched, podObs, prev, calls>>

\* Api<K>::list(&list_params).await? fails: the kube error is returned.
ListErr ==
    /\ pc = "list"
    /\ api' = api \cup {"list"}
    /\ Return("KubeErr")
    /\ UNCHANGED <<gke, scaleway_cr, infra, other, evaluation, self, workloads, cluster, op, desired, listed, idx, patched, podObs, prev, calls>>

\* Mutant: the scale patch steps the replica count towards the target by one and
\* the suspend patch flips the flag, instead of setting the value.
ApplyRelative(w, patch) ==
    IF patch.type = "Merge"
    THEN /\ replicas' = [replicas EXCEPT ![w] =
                            IF replicas[w] > patch.replicas THEN replicas[w] - 1
                            ELSE IF replicas[w] < patch.replicas THEN replicas[w] + 1
                            ELSE replicas[w]]
         /\ suspend' = suspend
    ELSE /\ suspend' = [suspend EXCEPT ![w] = ~suspend[w]]
         /\ replicas' = replicas

\* What a patch does to the named workload.
Apply(w, patch) ==
    IF patch.type = "Merge"
    THEN /\ replicas' = [replicas EXCEPT ![w] = patch.replicas]
         /\ suspend' = suspend
    ELSE /\ suspend' = [suspend EXCEPT ![w] = patch.value]
         /\ replicas' = replicas

\* Mutant: the patch is not followed by a wait, the loop goes straight on.
PatchOkNoWait ==
    /\ pc = "patch"
    /\ \E w \in Addressed(listed[idx]) :
          /\ Apply(w, Params.patch)
          /\ patched' = patched \cup {w}
    /\ api' = api \cup {"patch"}
    /\ Continue(listed, NextToPatch(listed, idx + 1))
    /\ UNCHANGED <<gke, scaleway_cr, infra, other, evaluation, self, workloads, status, pods, op, desired, listed, podObs, prev, calls>>

\* patch_scale(&name, ..) / patch(&name, ..) on the namespaced handle succeeds.
PatchOk ==
    /\ pc = "patch"
    /\ \E w \in Addressed(listed[idx]) :
          /\ Apply(w, Params.patch)
          /\ patched' = patched \cup {w}
    /\ api' = api \cup {"patch"}
    /\ IF pauses
       THEN /\ pc' = "wait"
            /\ UNCHANGED <<idx, ret, result>>
       ELSE Continue(listed, NextToPatch(listed, idx + 1))
    /\ UNCHANGED <<gke, scaleway_cr, infra, other, evaluation, self, workloads, status, pods, op, desired, listed, podObs, prev, calls>>

\* Mutant: a failed patch is skipped, the loop goes on to the next listed workload.
PatchErrSkips ==
    /\ pc = "patch"
    /\ api' = api \cup {"patch"}
    /\ Continue(listed, NextToPatch(listed, idx + 1))
    /\ UNCHANGED <<gke, scaleway_cr, infra, other, evaluation, self, workloads, cluster, op, desired, listed, patched, podObs, prev, calls>>

\* The patch fails: `?` returns the kube error, the loop is left.
PatchErr ==
    /\ pc = "patch"
    /\ api' = api \cup {"patch"}
    /\ Return("KubeErr")
    /\ UNCHANGED <<gke, scaleway_cr, infra, other, evaluation, self, workloads, cluster, op, desired, listed, idx, patched, podObs, prev, calls>>

\* The condition pause_service awaits, on the object the watch shows (None when
\* there is no such object).
Condition(object) ==
    IF Kind = "StateFulSet" THEN has_statefulset_ready_replicas(0, object)
    ELSE IF Kind = "Deployment" THEN has_deployment_ready_replicas(0, object)
    ELSE has_cron_job_suspended_value(desired = 0, object)

\* The condition on workload w.
Converged(w) == Condition(Some(Object(w)))

\* What await_condition(handle, &name, ..) watches for the listed object o.
Watched(o) ==
    IF Addressed(o) = {} THEN None
    ELSE Some(Object(CHOOSE w \in Addressed(o) : TRUE))

\* await_condition(..) returns Ok: the watched workload satisfies the condition.
WaitOk ==
    /\ pc = "wait"
    /\ Condition(Watched(listed[idx]))
    /\ api' = api \cup {"wait"}
    /\ Continue(listed, NextToPatch(listed, idx + 1))
    /\ UNCHANGED <<gke, scaleway_cr, infra, other, evaluation, self, workloads, cluster, op, desired, listed, patched, podObs, prev, calls>>

\* Mutant: the error of the wait is propagated with `?`.
WaitErrPropagates ==
    /\ pc = "wait"
    /\ api' = api \cup {"wait"}
    /\ idx' = idx
    /\ Return("KubeErr")
    /\ UNCHANGED <<gke, scaleway_cr, infra, other, evaluation, self, workloads, cluster, op, desired, listed, patched, podObs, prev, calls>>

\* Mutant: an error of the wait leaves the loop (break) for the pod poll.
WaitErrBreaks ==
    /\ pc = "wait"
    /\ api' = api \cup {"wait"}
    /\ Continue(listed, Len(listed) + 1)
    /\ UNCHANGED <<gke, scaleway_cr, infra, other, evaluation, self, workloads, cluster, op, desired, listed, patched, podObs, prev, calls>>

\* await_condition(..) returns Err (the watch failed): `let _ =` drops it.
WaitErr ==
    /\ pc = "wait"
    /\ api' = api \cup {"wait"}
    /\ Continue(listed, NextToPatch(listed, idx + 1))
    /\ UNCHANGED <<gke, scaleway_cr, infra, other, evaluation, self, workloads, cluster, op, desired, listed, patched, podObs, prev, calls>>

\* podObs when the pod listing returned Err.
PodListError == Some(-1)

\* wait_for_pods_to_be_in_correct_state: one turn of `while let Ok(pod) = pods.list(..)`:
\* the listing succeeds; break on the desired count, else sleep 10 s and list again.
PodsListOk ==
    /\ pc = "pods"
    /\ LET n == PodCount(TargetNamespace, self.is_cluster_wide_resources_allowed,
                         Params.list_params)
       IN /\ podObs' = Some(n)
          /\ IF n = desired
             THEN Return("Ok")
             ELSE /\ pc' = "pods"
                  /\ UNCHANGED <<ret, result>>
    /\ api' = api \cup {"pods"}
    /\ UNCHANGED <<gke, scaleway_cr, infra, other, evaluation, self, workloads, cluster, op, desired, listed, idx, patched, prev, calls>>

\* The pod listing fails: the `while let` loop ends, pause_service goes on to Ok(()).
PodsListErr ==
    /\ pc = "pods"
    /\ podObs' = PodListError
    /\ api' = api \cup {"pods"}
    /\ Return("Ok")
    /\ UNCHANGED <<gke, scaleway_cr, infra, other, evaluation, self, workloads, cluster, op, desired, listed, idx, patched, prev, calls>>

\* Mutant: the timer does not cover the per-workload wait nor the pod poll.
TimeoutNotAtWaitNorPoll ==
    /\ pc \in {"list", "patch"}
    /\ Return("Elapsed")
    /\ UNCHANGED <<gke, scaleway_cr, infra, other, evaluation, self, workloads, cluster, op, desired, listed, idx, api, patched,
                   podObs, prev, calls>>

\* Mutant: on timeout the workloads patched so far are put back to running.
TimeoutRollsBack ==
    /\ pc \in {"list", "patch", "wait", "pods"}
    /\ Return("Elapsed")
    /\ replicas' = [w \in Workloads |->
                       IF w \in patched /\ Kind \in ScalableKinds THEN 1 ELSE replicas[w]]
    /\ suspend' = [w \in Workloads |->
                      IF w \in patched /\ Kind = "CronJob" THEN FALSE ELSE suspend[w]]
    /\ UNCHANGED <<gke, scaleway_cr, infra, other, evaluation, self, workloads, status, pods, op, desired, listed, idx, api, patched,
                   podObs, prev, calls>>

\* tokio::time::timeout(self.timeout, fut) elapses while fut is at an await point:
\* fut is dropped where it stands.
Timeout ==
    /\ pc \in {"list", "patch", "wait", "pods"}
    /\ Return("Elapsed")
    /\ UNCHANGED <<gke, scaleway_cr, infra, other, evaluation, self, workloads, cluster, op, desired, listed, idx, api, patched,
                   podObs, prev, calls>>

Kubernetes ==
    \E w \in Workloads :
        \/ ControllerScaleDown(w)
        \/ PodDeleted(w)
        \/ PodCreated(w)
        \/ PodReady(w)

Next ==
    \/ OnPause
    \/ UnpauseIfNeeded
    \/ ListOk
    \/ ListErr
    \/ PatchOk
    \/ PatchErr
    \/ WaitOk
    \/ WaitErr
    \/ PodsListOk
    \/ PodsListErr
    \/ Timeout
    \/ Kubernetes

Spec == Init /\ [][Next]_vars

\* The DeploymentAction trait as the deployment pipeline drives it: the four
\* hooks, the steps of the executor behind on_pause, and the cluster scaling down.
ScaleDown ==
    \E w \in Workloads :
        \/ ControllerScaleDown(w)
        \/ PodDeleted(w)

DeploymentActionNext ==
    \/ OnCreate
    \/ OnPause
    \/ OnDelete
    \/ OnRestart
    \/ ListOk
    \/ ListErr
    \/ PatchOk
    \/ PatchErr
    \/ WaitOk
    \/ WaitErr
    \/ PodsListOk
    \/ PodsListErr
    \/ Timeout
    \/ ScaleDown

DeploymentActionSpec == Init /\ [][DeploymentActionNext]_vars

\* Progress of one call: every API request is answered (one way or the other), a
\* watch notices the condition it awaits once it holds, and the pod poll sees
\* the desired count once the pods are that many.  Nothing is assumed of the
\* cluster's controllers, no error is bound to happen (a poll that keeps seeing
\* another count goes on polling), and self.timeout is any duration: the timer
\* may fire at any await point, or later than any step.
Fairness ==
    /\ WF_vars(ListOk \/ ListErr)
    /\ WF_vars(PatchOk \/ PatchErr)
    /\ WF_vars(WaitOk)
    /\ WF_vars(PodsListOk)

FairSpec == Init /\ [][Next]_vars /\ Fairness

\* self.timeout is a finite Duration and every step of the future is an await
\* (list, patch, await_condition, the pod listing and the sleep between two of
\* them): while the future is pending the runtime polls the timer, which
\* elapses.  Nothing is assumed of the API server nor of the cluster.
Deadline == WF_vars(Timeout)

TerminationSpec == Init /\ [][Next]_vars /\ Deadline

\* The cluster's controllers do their part of a scale down: the replicas in
\* excess leave the status and the terminating pods go away.
ClusterFairness ==
    \A w \in Workloads :
        /\ WF_vars(ControllerScaleDown(w))
        /\ WF_vars(PodDeleted(w))

RecoverySpec == Init /\ [][Next]_vars /\ Fairness /\ ClusterFairness

\* --------------------------------------- the convergence predicates by themselves
\* A cluster and an action that take no part.
IdleService ==
    /\ self = [selector |-> WorkloadLabel, k8s_resource_type |-> "Job", timeout |-> 30,
               is_cluster_wide_resources_allowed |-> FALSE]
    /\ workloads = [w \in Workloads |->
                        [kind |-> "Deployment", namespace |-> Some(TargetNamespace),
                         name |-> Some(w), labels |-> {WorkloadLabel}]]
    /\ replicas = [w \in Workloads |-> 0]
    /\ suspend = [w \in Workloads |-> FALSE]
    /\ PauseServiceInit

\* Option<i32> as a status field is decoded.
Counts == {None} \cup {Some(k) : k \in 0..MaxReplicas}

\* Option<&Deployment> as await_condition hands it to the condition: no object,
\* an object without status, or with a status (both counts are Option<i32>).
DeploymentObjects ==
    {None, Some([status |-> None])}
    \cup {Some([status |-> Some([replicas |-> r, ready_replicas |-> k])]) :
              r \in Counts, k \in Counts}

\* Option<&StatefulSet>: status.replicas is a plain i32.
StatefulSetObjects ==
    {None, Some([status |-> None])}
    \cup {Some([status |-> Some([replicas |-> r, ready_replicas |-> k])]) :
              r \in 0..MaxReplicas, k \in Counts}

\* Option<&CronJob>: no object, no spec, or a spec with suspend: Option<bool>.
CronJobObjects ==
    {None, Some([spec |-> None])}
    \cup {Some([spec |-> Some([suspend |-> s])]) : s \in {None, Some(TRUE), Some(FALSE)}}

Unevaluated(fn, args) == Some([fn |-> fn, args |-> args, value |-> None])

\* A condition built for a count or a flag, and the object it is asked about.
ConditionInit ==
    /\ kubernetes = [is_karpenter_enabled |-> FALSE, nodes_groups |-> <<>>,
                     is_dry_run_deploy |-> FALSE]
    /\ NotStarted
    /\ NoGkeCreation
    /\ NoRegistryCall
    /\ other = None
    /\ IdleService
    /\ \/ \E n \in 0..MaxReplicas, d \in DeploymentObjects :
             evaluation = Unevaluated("has_deployment_ready_replicas", <<n, d>>)
       \/ \E n \in 0..MaxReplicas, s \in StatefulSetObjects :
             evaluation = Unevaluated("has_statefulset_ready_replicas", <<n, s>>)
       \/ \E b \in BOOLEAN, c \in CronJobObjects :
             evaluation = Unevaluated("has_cron_job_suspended_value", <<b, c>>)

\* The function fn is to be applied.
Applies(fn) ==
    /\ evaluation # None
    /\ Unwrap(evaluation).fn = fn
    /\ Unwrap(evaluation).value = None

\* The function has returned v.
Evaluated(v) ==
    /\ evaluation' = Some([Unwrap(evaluation) EXCEPT !.value = Some(v)])
    /\ UNCHANGED <<gke, scaleway_cr, infra, other, self, workloads, cluster, call>>

HasDeploymentReadyReplicas ==
    /\ Applies("has_deployment_ready_replicas")
    /\ Evaluated(has_deployment_ready_replicas(Unwrap(evaluation).args[1],
                                               Unwrap(evaluation).args[2]))

HasStatefulsetReadyReplicas ==
    /\ Applies("has_statefulset_ready_replicas")
    /\ Evaluated(has_statefulset_ready_replicas(Unwrap(evaluation).args[1],
                                                Unwrap(evaluation).args[2]))

HasCronJobSuspendedValue ==
    /\ Applies("has_cron_job_suspended_value")
    /\ Evaluated(has_cron_job_suspended_value(Unwrap(evaluation).args[1],
                                              Unwrap(evaluation).args[2]))

ConditionNext ==
    \/ HasDeploymentReadyReplicas
    \/ HasStatefulsetReadyReplicas
    \/ HasCronJobSuspendedValue

ConditionSpec == ConditionInit /\ [][ConditionNext]_vars

\* ------------------------------- the requirements of the Karpenter node pools
\* (src/src/infrastructure_action/eks/helm_charts/karpenter_configuration.rs)
MaxRequirements == 3

\* KarpenterNodePoolRequirement { key, operator: Option<_>, values: Vec<String> }
KarpenterNodePoolRequirement(key, operator, values) ==
    [key |-> key, operator |-> operator, values |-> values]

\* The CapacityType requirement both branches build from spot_enabled.
capacity_type_requirement(spot_enabled) ==
    KarpenterNodePoolRequirement("CapacityType", Some("In"),
        IF spot_enabled THEN <<"spot", "on-demand">> ELSE <<"on-demand">>)

default_karpenter_node_pools_requirements(spot_enabled) ==
    << KarpenterNodePoolRequirement("Arch", Some("In"), <<"amd64", "arm64">>),
       KarpenterNodePoolRequirement("Os", Some("In"), <<"linux">>),
       KarpenterNodePoolRequirement("InstanceCategory", Some("In"),
           <<"c", "d", "h", "i", "im", "inf", "is", "m", "r", "t", "trn", "x", "z">>),
       KarpenterNodePoolRequirement("InstanceGeneration", Some("Gt"), <<"2">>),
       capacity_type_requirement(spot_enabled) >>

\* Mutant: the requirement is pushed whatever the custom list holds, an empty
\* list included (no filter on is_empty).
get_karpenter_node_pools_requirements_no_filter(spot_enabled, qovery_node_pools) ==
    IF IsSome(qovery_node_pools) /\ IsSome(Unwrap(qovery_node_pools).requirements)
    THEN Append(Unwrap(Unwrap(qovery_node_pools).requirements),
                capacity_type_requirement(spot_enabled))
    ELSE default_karpenter_node_pools_requirements(spot_enabled)

\* if let Some(pools) = qovery_node_pools {
\*     if let Some(mut requirements) = pools.requirements.filter(|req| !req.is_empty()) {
\*         requirements.push(..); return requirements; } }
\* Self::default_karpenter_node_pools_requirements(spot_enabled)
get_karpenter_node_pools_requirements(spot_enabled, qovery_node_pools) ==
    LET requirements ==
            IF IsSome(qovery_node_pools)
            THEN LET r == Unwrap(qovery_node_pools).requirements
                 IN IF IsSome(r) /\ Len(Unwrap(r)) # 0 THEN r ELSE None
            ELSE None
    IN IF IsSome(requirements)
       THEN Append(Unwrap(requirements), capacity_type_requirement(spot_enabled))
       ELSE default_karpenter_node_pools_requirements(spot_enabled)

\* The requirements a user sets on the node pools: those of the tests, and one
\* without operator.
CustomRequirements ==
    { KarpenterNodePoolRequirement("InstanceCategory", Some("In"), <<"c">>),
      KarpenterNodePoolRequirement("Arch", Some("In"), <<"AMD64">>),
      KarpenterNodePoolRequirement("CapacityType", Some("In"), <<"spot">>),
      KarpenterNodePoolRequirement("InstanceGeneration", None, <<"3">>) }

RECURSIVE SeqsUpTo(_, _)
SeqsUpTo(S, n) ==
    IF n = 0 THEN {<<>>}
    ELSE LET shorter == SeqsUpTo(S, n - 1)
         IN shorter \cup {Append(s, x) : s \in shorter, x \in S}

\* Option<KarpenterNodePool>, KarpenterNodePool { requirements: Option<Vec<_>> }.
KarpenterNodePools ==
    {None, Some([requirements |-> None])}
    \cup {Some([requirements |-> Some(r)]) : r \in SeqsUpTo(CustomRequirements, MaxRequirements)}

KarpenterInit ==
    /\ kubernetes = [is_karpenter_enabled |-> FALSE, nodes_groups |-> <<>>,
                     is_dry_run_deploy |-> FALSE]
    /\ NotStarted
    /\ NoGkeCreation
    /\ NoRegistryCall
    /\ other = None
    /\ IdleService
    /\ \E spot_enabled \in BOOLEAN, qovery_node_pools \in KarpenterNodePools :
          evaluation = Unevaluated("get_karpenter_node_pools_requirements",
                                   <<spot_enabled, qovery_node_pools>>)

GetKarpenterNodePoolsRequirements ==
    /\ Applies("get_karpenter_node_pools_requirements")
    /\ Evaluated(get_karpenter_node_pools_requirements(Unwrap(evaluation).args[1],
                                                       Unwrap(evaluation).args[2]))

KarpenterNext == GetKarpenterNodePoolsRequirements

KarpenterSpec == KarpenterInit /\ [][KarpenterNext]_vars

\* ------------------------------------------- objects listed without a name
\* ObjectMeta.namespace and ObjectMeta.name are Option<String>: the loops are
\* written for listed objects that lack either.  An object without a namespace
\* is in no namespace: only a cluster-wide listing returns it.  A name is unique
\* among the objects of one kind in one namespace, not across namespaces.
DefensiveLayouts(kind) ==
    {l \in [Workloads -> [kind : KindsBeside(kind),
                          namespace : {None} \cup {Some(n) : n \in Namespaces},
                          name : {None} \cup {Some(w) : w \in Workloads},
                          labels : {{WorkloadLabel}}]] :
        /\ \A w \in Workloads : w < NumWorkloads => l[w].namespace = Some(TargetNamespace)
        /\ \A w, v \in Workloads :
              (w # v /\ l[w].name # None /\ l[w].name = l[v].name /\ l[w].kind = l[v].kind)
                  => l[w].namespace # l[v].namespace}

DefensiveInit ==
    /\ kubernetes = [is_karpenter_enabled |-> FALSE, nodes_groups |-> <<>>,
                     is_dry_run_deploy |-> FALSE]
    /\ NotStarted
    /\ NoGkeCreation
    /\ NoRegistryCall
    /\ other = None
    /\ evaluation = None
    /\ self \in PatchingActions
    /\ workloads \in DefensiveLayouts(self.k8s_resource_type)
    /\ ClusterAtRest
    /\ NoCallMade

DefensiveSpec == DefensiveInit /\ [][Next]_vars

\* ------------------------------------------- a cluster whose status lags behind
\* The calls are made while the controllers have not converged: a workload has
\* no status yet (just created, nothing reported) or its status shows fewer
\* replicas than its spec asks for; the pods are those the status counts.
ClusterRollingOut ==
    /\ replicas \in [Workloads -> 0..MaxReplicas]
    /\ suspend = [w \in Workloads |-> FALSE]
    /\ status \in [Workloads -> {None} \cup
                     {Some([replicas |-> n, ready_replicas |-> n]) : n \in 0..MaxReplicas}]
    /\ \A w \in Workloads : IsSome(status[w]) => status[w][1].replicas <= replicas[w]
    /\ pods = [w \in Workloads |-> IF IsSome(status[w]) THEN status[w][1].replicas ELSE 0]

RollingOutInit ==
    /\ kubernetes = [is_karpenter_enabled |-> FALSE, nodes_groups |-> <<>>,
                     is_dry_run_deploy |-> FALSE]
    /\ NotStarted
    /\ NoGkeCreation
    /\ NoRegistryCall
    /\ other = None
    /\ evaluation = None
    /\ self \in {a \in PatchingActions : a.k8s_resource_type \in ScalableKinds}
    /\ workloads \in {l \in Layouts(self.k8s_resource_type) :
                         \A w \in Workloads : l[w].kind \in ScalableKinds}
    /\ ClusterRollingOut
    /\ NoCallMade

RollingOutSpec == RollingOutInit /\ [][Next]_vars

\* ------------------------------------------------- pause_service by itself
\* pause_service called with a desired size, as test_scale_deployment and
\* test_scale_statefulset call it (0, then 1).
PauseService == \E n \in 0..MaxReplicas : Begin("pause_service", n)

ExecutorNext ==
    \/ PauseService
    \/ ListOk
    \/ ListErr
    \/ PatchOk
    \/ PatchErr
    \/ WaitOk
    \/ WaitErr
    \/ PodsListOk
    \/ PodsListErr
    \/ Timeout
    \/ Kubernetes

ExecutorSpec == Init /\ [][ExecutorNext]_vars

\* ------------------------------------------------------- two concurrent calls
\* Nothing in on_pause / unpause_if_needed takes a lock: two threads of the
\* pipeline may each drive a call against the same cluster, and their API calls
\* interleave at every await point.
\* A thread that has not called yet, with the action it drives.
NotCalled(a) ==
    [self |-> a, op |-> "none", desired |-> 0, pc |-> "idle", listed |-> <<>>, idx |-> 0,
     api |-> {}, patched |-> {}, podObs |-> None, ret |-> "pending", result |-> NoResult,
     prev |-> [op |-> "none", ret |-> "pending", result |-> NoResult], calls |-> 0]

\* Two actions of the same kind on the same label, each with its own scope.
RaceInit ==
    /\ kubernetes = [is_karpenter_enabled |-> FALSE, nodes_groups |-> <<>>,
                     is_dry_run_deploy |-> FALSE]
    /\ NotStarted
    /\ NoGkeCreation
    /\ NoRegistryCall
    /\ self \in PatchingActions
    /\ \E a \in PatchingActions :
          /\ a.k8s_resource_type = self.k8s_resource_type
          /\ other = Some(NotCalled(a))
    /\ evaluation = None
    /\ PauseServiceInit

\* The call of the thread that takes the next step.
Current ==
    [self |-> self, op |-> op, desired |-> desired, pc |-> pc, listed |-> listed, idx |-> idx,
     api |-> api, patched |-> patched, podObs |-> podObs, ret |-> ret, result |-> result,
     prev |-> prev, calls |-> calls]

\* The other thread takes the next step: nothing but the turn changes.
Switch ==
    /\ other # None
    /\ other' = Some(Current)
    /\ self' = Unwrap(other).self
    /\ op' = Unwrap(other).op
    /\ desired' = Unwrap(other).desired
    /\ pc' = Unwrap(other).pc
    /\ listed' = Unwrap(other).listed
    /\ idx' = Unwrap(other).idx
    /\ api' = Unwrap(other).api
    /\ patched' = Unwrap(other).patched
    /\ podObs' = Unwrap(other).podObs
    /\ ret' = Unwrap(other).ret
    /\ result' = Unwrap(other).result
    /\ prev' = Unwrap(other).prev
    /\ calls' = Unwrap(other).calls
    /\ UNCHANGED <<gke, scaleway_cr, infra, evaluation, workloads, cluster>>

\* Each thread makes one call.
FirstOnPause == calls = 0 /\ OnPause

FirstUnpauseIfNeeded == calls = 0 /\ UnpauseIfNeeded

RaceNext ==
    \/ FirstOnPause
    \/ FirstUnpauseIfNeeded
    \/ ListOk
    \/ ListErr
    \/ PatchOk
    \/ PatchErr
    \/ WaitOk
    \/ WaitErr
    \/ PodsListOk
    \/ PodsListErr
    \/ Timeout
    \/ Kubernetes
    \/ Switch

RaceSpec == RaceInit /\ [][RaceNext]_vars

\* ======================================================== pause_eks_cluster
service == <<self, workloads, cluster, call, other, evaluation>>

\* One cluster pause: no PauseServiceAction call is made next to it.
EksInit ==
    /\ kubernetes \in Clusters
    /\ NotStarted
    /\ NoGkeCreation
    /\ NoRegistryCall
    /\ other = None
    /\ evaluation = None
    /\ self = [selector |-> WorkloadLabel, k8s_resource_type |-> "Job", timeout |-> 30,
               is_cluster_wide_resources_allowed |-> FALSE]
    /\ workloads = [w \in Workloads |->
                        [kind |-> "Deployment", namespace |-> Some(TargetNamespace),
                         name |-> Some(w), labels |-> {WorkloadLabel}]]
    /\ replicas = [w \in Workloads |-> 0]
    /\ suspend = [w \in Workloads |-> FALSE]
    /\ PauseServiceInit

\* The record of a call to a collaborator.
Called(fn, args, ok) ==
    collaborator_calls' = Append(collaborator_calls, [fn |-> fn, args |-> args, ok |-> ok])

\* pause_eks_cluster returns r.
InfraReturn(r) ==
    /\ infra_pc' = "done"
    /\ pause_result' = r

\* pause_eks_cluster is called.
PauseEksCluster ==
    /\ infra_pc = "idle"
    /\ infra_pc' = "mk_kube_client"
    /\ UNCHANGED <<gke, scaleway_cr, service, kubernetes, collaborator_calls, aws_eks_client,
                   node_groups_with_desired_states, pods_list,
                   cluster_upgrade_timeout_in_min, tera_context, pause_result>>

\* infra_ctx.mk_kube_client()? succeeds; then the branch on is_karpenter_enabled().
MkKubeClientOk ==
    /\ infra_pc = "mk_kube_client"
    /\ Called("mk_kube_client", <<>>, TRUE)
    /\ infra_pc' = IF kubernetes.is_karpenter_enabled THEN "Karpenter::pause"
                   ELSE "get_rusoto_eks_client"
    /\ UNCHANGED <<gke, scaleway_cr, service, kubernetes, aws_eks_client, node_groups_with_desired_states,
                   pods_list, cluster_upgrade_timeout_in_min, tera_context, pause_result>>

MkKubeClientErr ==
    /\ infra_pc = "mk_kube_client"
    /\ Called("mk_kube_client", <<>>, FALSE)
    /\ InfraReturn("Err")
    /\ UNCHANGED <<gke, scaleway_cr, service, kubernetes, aws_eks_client, node_groups_with_desired_states,
                   pods_list, cluster_upgrade_timeout_in_min, tera_context>>

\* Mutant: after Karpenter::pause the legacy flow runs as well.
KarpenterPauseFallsThrough ==
    /\ infra_pc = "Karpenter::pause"
    /\ Called("Karpenter::pause", <<>>, TRUE)
    /\ infra_pc' = "get_rusoto_eks_client"
    /\ UNCHANGED <<gke, scaleway_cr, service, kubernetes, aws_eks_client, node_groups_with_desired_states,
                   pods_list, cluster_upgrade_timeout_in_min, tera_context, pause_result>>

\* block_on(Karpenter::pause(..))? succeeds: return Ok(()).
KarpenterPauseOk ==
    /\ infra_pc = "Karpenter::pause"
    /\ Called("Karpenter::pause", <<>>, TRUE)
    /\ InfraReturn("Ok")
    /\ UNCHANGED <<gke, scaleway_cr, service, kubernetes, aws_eks_client, node_groups_with_desired_states,
                   pods_list, cluster_upgrade_timeout_in_min, tera_context>>

KarpenterPauseErr ==
    /\ infra_pc = "Karpenter::pause"
    /\ Called("Karpenter::pause", <<>>, FALSE)
    /\ InfraReturn("Err")
    /\ UNCHANGED <<gke, scaleway_cr, service, kubernetes, aws_eks_client, node_groups_with_desired_states,
                   pods_list, cluster_upgrade_timeout_in_min, tera_context>>

\* get_rusoto_eks_client(..): Ok(value) => Some(value).
GetRusotoEksClientOk ==
    /\ infra_pc = "get_rusoto_eks_client"
    /\ Called("get_rusoto_eks_client", <<>>, TRUE)
    /\ aws_eks_client' = Some("EksClient")
    /\ infra_pc' = "should_update_desired_nodes"
    /\ UNCHANGED <<gke, scaleway_cr, service, kubernetes, node_groups_with_desired_states, pods_list,
                   cluster_upgrade_timeout_in_min, tera_context, pause_result>>

\* get_rusoto_eks_client(..): Err(_) => None, and the flow goes on.
GetRusotoEksClientErr ==
    /\ infra_pc = "get_rusoto_eks_client"
    /\ Called("get_rusoto_eks_client", <<>>, FALSE)
    /\ aws_eks_client' = None
    /\ infra_pc' = "should_update_desired_nodes"
    /\ UNCHANGED <<gke, scaleway_cr, service, kubernetes, node_groups_with_desired_states, pods_list,
                   cluster_upgrade_timeout_in_min, tera_context, pause_result>>

\* should_update_desired_nodes(.., Pause, &kubernetes.nodes_groups, aws_eks_client)?
\* answers with a desired state for every node group.
ShouldUpdateDesiredNodesOk ==
    /\ infra_pc = "should_update_desired_nodes"
    /\ Called("should_update_desired_nodes",
              <<"Pause", kubernetes.nodes_groups, aws_eks_client>>, TRUE)
    /\ \E ds \in [1..Len(kubernetes.nodes_groups) -> 0..MaxDesiredNodes] :
          node_groups_with_desired_states' =
              Some([i \in 1..Len(kubernetes.nodes_groups) |->
                       [name |-> kubernetes.nodes_groups[i], desired_nodes |-> ds[i]]])
    /\ infra_pc' = "get_pods"
    /\ UNCHANGED <<gke, scaleway_cr, service, kubernetes, aws_eks_client, pods_list,
                   cluster_upgrade_timeout_in_min, tera_context, pause_result>>

ShouldUpdateDesiredNodesErr ==
    /\ infra_pc = "should_update_desired_nodes"
    /\ Called("should_update_desired_nodes",
              <<"Pause", kubernetes.nodes_groups, aws_eks_client>>, FALSE)
    /\ InfraReturn("Err")
    /\ UNCHANGED <<gke, scaleway_cr, service, kubernetes, aws_eks_client, node_groups_with_desired_states,
                   pods_list, cluster_upgrade_timeout_in_min, tera_context>>

\* block_on(kube_client.get_pods(.., None, SelectK8sResourceBy::All)) is Ok(pods).
GetPodsOk ==
    /\ infra_pc = "get_pods"
    /\ Called("get_pods", <<None, "All">>, TRUE)
    /\ \E n \in 0..MaxPods : pods_list' = Some([i \in 1..n |-> i])
    /\ infra_pc' = "define_cluster_upgrade_timeout"
    /\ UNCHANGED <<gke, scaleway_cr, service, kubernetes, aws_eks_client, node_groups_with_desired_states,
                   cluster_upgrade_timeout_in_min, tera_context, pause_result>>

\* Mutant: the failure of the pod listing is returned.
GetPodsErrAborts ==
    /\ infra_pc = "get_pods"
    /\ Called("get_pods", <<None, "All">>, FALSE)
    /\ InfraReturn("Err")
    /\ UNCHANGED <<gke, scaleway_cr, service, kubernetes, aws_eks_client, node_groups_with_desired_states,
                   pods_list, cluster_upgrade_timeout_in_min, tera_context>>

\* get_pods is Err: .unwrap_or(Vec::with_capacity(0)).
GetPodsErr ==
    /\ infra_pc = "get_pods"
    /\ Called("get_pods", <<None, "All">>, FALSE)
    /\ pods_list' = Some(<<>>)
    /\ infra_pc' = "define_cluster_upgrade_timeout"
    /\ UNCHANGED <<gke, scaleway_cr, service, kubernetes, aws_eks_client, node_groups_with_desired_states,
                   cluster_upgrade_timeout_in_min, tera_context, pause_result>>

\* define_cluster_upgrade_timeout(pods_list, Pause): the policy collaborator
\* answers with a timeout (the advisory message is only logged).
DefineClusterUpgradeTimeout ==
    /\ infra_pc = "define_cluster_upgrade_timeout"
    /\ Called("define_cluster_upgrade_timeout", <<Unwrap(pods_list), "Pause">>, TRUE)
    /\ \E timeout \in 1..MaxTimeoutInMin : cluster_upgrade_timeout_in_min' = Some(timeout)
    /\ infra_pc' = "eks_tera_context"
    /\ UNCHANGED <<gke, scaleway_cr, service, kubernetes, aws_eks_client, node_groups_with_desired_states,
                   pods_list, tera_context, pause_result>>

\* The context eks_tera_context builds from its arguments (those that matter here).
eks_tera_context(node_groups, timeout) ==
    [eks_worker_nodes |-> node_groups, cluster_upgrade_timeout_in_min |-> timeout]

\* Mutant: the key is left as rendered.
insert_ignored(context, key, value) == context

\* tera::Context::insert(key, &value): sets or replaces the key.
insert(context, key, value) ==
    [k \in DOMAIN context \cup {key} |-> IF k = key THEN value ELSE context[k]]

\* eks_tera_context(..)? succeeds; then tera_context.insert("eks_worker_nodes", &vec![]).
EksTeraContextOk ==
    /\ infra_pc = "eks_tera_context"
    /\ Called("eks_tera_context",
              <<Unwrap(node_groups_with_desired_states),
                Unwrap(cluster_upgrade_timeout_in_min)>>, TRUE)
    /\ tera_context' =
          Some(insert(eks_tera_context(Unwrap(node_groups_with_desired_states),
                                       Unwrap(cluster_upgrade_timeout_in_min)),
                      "eks_worker_nodes", <<>>))
    /\ infra_pc' = "TerraformInfraResources::pause"
    /\ UNCHANGED <<gke, scaleway_cr, service, kubernetes, aws_eks_client, node_groups_with_desired_states,
                   pods_list, cluster_upgrade_timeout_in_min, pause_result>>

EksTeraContextErr ==
    /\ infra_pc = "eks_tera_context"
    /\ Called("eks_tera_context",
              <<Unwrap(node_groups_with_desired_states),
                Unwrap(cluster_upgrade_timeout_in_min)>>, FALSE)
    /\ InfraReturn("Err")
    /\ UNCHANGED <<gke, scaleway_cr, service, kubernetes, aws_eks_client, node_groups_with_desired_states,
                   pods_list, cluster_upgrade_timeout_in_min, tera_context>>

\* Mutant: the pause is not targeted.
pause_untargeted == <<>>

\* The resource address prefixes handed to tf_action.pause.
pause_targets == <<"aws_eks_node_group.">>

\* TerraformInfraResources::new(tera_context.clone(), .., is_dry_run_deploy())
\* .pause(&["aws_eks_node_group."])? succeeds: return Ok(()).
TfPauseOk ==
    /\ infra_pc = "TerraformInfraResources::pause"
    /\ Called("TerraformInfraResources::pause",
              <<pause_targets, Unwrap(tera_context), kubernetes.is_dry_run_deploy>>, TRUE)
    /\ InfraReturn("Ok")
    /\ UNCHANGED <<gke, scaleway_cr, service, kubernetes, aws_eks_client, node_groups_with_desired_states,
                   pods_list, cluster_upgrade_timeout_in_min, tera_context>>

\* Mutant: the result of the pause is dropped.
TfPauseErrIgnored ==
    /\ infra_pc = "TerraformInfraResources::pause"
    /\ Called("TerraformInfraResources::pause",
              <<pause_targets, Unwrap(tera_context), kubernetes.is_dry_run_deploy>>, FALSE)
    /\ InfraReturn("Ok")
    /\ UNCHANGED <<gke, scaleway_cr, service, kubernetes, aws_eks_client, node_groups_with_desired_states,
                   pods_list, cluster_upgrade_timeout_in_min, tera_context>>

TfPauseErr ==
    /\ infra_pc = "TerraformInfraResources::pause"
    /\ Called("TerraformInfraResources::pause",
              <<pause_targets, Unwrap(tera_context), kubernetes.is_dry_run_deploy>>, FALSE)
    /\ InfraReturn("Err")
    /\ UNCHANGED <<gke, scaleway_cr, service, kubernetes, aws_eks_client, node_groups_with_desired_states,
                   pods_list, cluster_upgrade_timeout_in_min, tera_context>>

EksNext ==
    \/ PauseEksCluster
    \/ MkKubeClientOk
    \/ MkKubeClientErr
    \/ KarpenterPauseOk
    \/ KarpenterPauseErr
    \/ GetRusotoEksClientOk
    \/ GetRusotoEksClientErr
    \/ ShouldUpdateDesiredNodesOk
    \/ ShouldUpdateDesiredNodesErr
    \/ GetPodsOk
    \/ GetPodsErr
    \/ DefineClusterUpgradeTimeout
    \/ EksTeraContextOk
    \/ EksTeraContextErr
    \/ TfPauseOk
    \/ TfPauseErr

EksSpec == EksInit /\ [][EksNext]_vars

\* ------------------------------------------------------- create_gke_cluster
\* (src/src/infrastructure_action/gke/cluster_create.rs): one step per call the
\* creation makes to a collaborator, with the outcome of the call.
GkeInit ==
    /\ kubernetes = [is_karpenter_enabled |-> FALSE, nodes_groups |-> <<>>,
                     is_dry_run_deploy |-> FALSE]
    /\ NotStarted
    /\ NoRegistryCall
    /\ other = None
    /\ evaluation = None
    /\ IdleService
    /\ \E dry_run \in BOOLEAN :
          gke = [is_dry_run_deploy |-> dry_run, pc |-> "idle", calls |-> <<>>,
                 result |-> [ret |-> "pending"], creations |-> 0]

\* The creation has called fn, which returned Ok (ok) or Err, and goes on to the
\* step `to`.
GkeGoes(fn, ok, to) ==
    /\ gke' = [gke EXCEPT !.calls = Append(@, [fn |-> fn, ok |-> ok]), !.pc = to]
    /\ UNCHANGED <<scaleway_cr, infra, service>>

\* The creation has called fn and returns r.
GkeReturns(fn, ok, r) ==
    /\ gke' = [gke EXCEPT !.calls = Append(@, [fn |-> fn, ok |-> ok]), !.pc = "done",
                          !.result = r]
    /\ UNCHANGED <<scaleway_cr, infra, service>>

GkeErr(error) == [ret |-> "Err", error |-> error]

\* create_gke_cluster is called (again, once it has returned).
CreateGkeCluster ==
    /\ gke.pc \in {"idle", "done"}
    /\ gke.creations < MaxCalls
    /\ gke' = [gke EXCEPT !.pc = "create_bucket", !.calls = <<>>,
                          !.result = [ret |-> "pending"], !.creations = @ + 1]
    /\ UNCHANGED <<scaleway_cr, infra, service>>

\* create_object_storage: object_storage.create_bucket(..) returns the bucket;
\* with versioning activated the loop continues (and ends), else the bucket is updated.
CreateBucketOk ==
    /\ gke.pc = "create_bucket"
    /\ \E versioning_activated \in BOOLEAN :
          GkeGoes("create_bucket", TRUE,
                  IF versioning_activated THEN "to_infra_tera_context" ELSE "update_bucket")

\* create_bucket fails: create_object_storage returns the error, create_gke_cluster
\* logs it and returns it.
CreateBucketErr ==
    /\ gke.pc = "create_bucket"
    /\ GkeReturns("create_bucket", FALSE, GkeErr("new_object_storage_error"))

UpdateBucketOk ==
    /\ gke.pc = "update_bucket"
    /\ GkeGoes("update_bucket", TRUE, "to_infra_tera_context")

UpdateBucketErr ==
    /\ gke.pc = "update_bucket"
    /\ GkeReturns("update_bucket", FALSE, GkeErr("new_object_storage_error"))

\* cluster.to_infra_tera_context(infra_ctx)?
ToInfraTeraContextOk ==
    /\ gke.pc = "to_infra_tera_context"
    /\ GkeGoes("to_infra_tera_context", TRUE, "TerraformInfraResources::create")

ToInfraTeraContextErr ==
    /\ gke.pc = "to_infra_tera_context"
    /\ GkeReturns("to_infra_tera_context", FALSE, GkeErr("to_infra_tera_context"))

\* Mutant: the dry run is not looked at after the Terraform step.
TerraformCreateOkGoesOn ==
    /\ gke.pc = "TerraformInfraResources::create"
    /\ GkeGoes("TerraformInfraResources::create", TRUE, "update_kubeconfig_file")

\* tf_resources.create(&logger)? succeeds; in a dry run the creation returns Ok(()).
TerraformCreateOk ==
    /\ gke.pc = "TerraformInfraResources::create"
    /\ IF gke.is_dry_run_deploy
       THEN GkeReturns("TerraformInfraResources::create", TRUE, [ret |-> "Ok"])
       ELSE GkeGoes("TerraformInfraResources::create", TRUE, "update_kubeconfig_file")

TerraformCreateErr ==
    /\ gke.pc = "TerraformInfraResources::create"
    /\ GkeReturns("TerraformInfraResources::create", FALSE,
                  GkeErr("TerraformInfraResources::create"))

\* update_kubeconfig_file(cluster, &qovery_terraform_output.kubeconfig)?
UpdateKubeconfigFileOk ==
    /\ gke.pc = "update_kubeconfig_file"
    /\ GkeGoes("update_kubeconfig_file", TRUE, "configure_gcloud_for_cluster")

UpdateKubeconfigFileErr ==
    /\ gke.pc = "update_kubeconfig_file"
    /\ GkeReturns("update_kubeconfig_file", FALSE, GkeErr("update_kubeconfig_file"))

\* let _ = cluster.configure_gcloud_for_cluster(infra_ctx): the result is dropped.
ConfigureGcloudForCluster ==
    /\ gke.pc = "configure_gcloud_for_cluster"
    /\ \E ok \in BOOLEAN :
          GkeGoes("configure_gcloud_for_cluster", ok, "check_workers_on_create")

\* check_workers_on_create(..).map_err(new_k8s_node_not_ready)?
CheckWorkersOnCreateOk ==
    /\ gke.pc = "check_workers_on_create"
    /\ GkeGoes("check_workers_on_create", TRUE, "fs::read_to_string")

CheckWorkersOnCreateErr ==
    /\ gke.pc = "check_workers_on_create"
    /\ GkeReturns("check_workers_on_create", FALSE, GkeErr("new_k8s_node_not_ready"))

\* fs::read_to_string(cluster.kubeconfig_local_file_path()).map_err(..)?
ReadKubeconfigOk ==
    /\ gke.pc = "fs::read_to_string"
    /\ GkeGoes("fs::read_to_string", TRUE, "update_gke_vault_config")

ReadKubeconfigErr ==
    /\ gke.pc = "fs::read_to_string"
    /\ GkeReturns("fs::read_to_string", FALSE,
                  GkeErr("new_cannot_retrieve_cluster_config_file"))

\* let _ = cluster.update_gke_vault_config(..).inspect_err(warn): not blocking.
UpdateGkeVaultConfig ==
    /\ gke.pc = "update_gke_vault_config"
    /\ \E ok \in BOOLEAN : GkeGoes("update_gke_vault_config", ok, "deploy_charts")

\* helms_deployments.deploy_charts(infra_ctx, &logger)?; Ok(())
DeployChartsOk ==
    /\ gke.pc = "deploy_charts"
    /\ GkeReturns("deploy_charts", TRUE, [ret |-> "Ok"])

DeployChartsErr ==
    /\ gke.pc = "deploy_charts"
    /\ GkeReturns("deploy_charts", FALSE, GkeErr("deploy_charts"))

GkeNext ==
    \/ CreateGkeCluster
    \/ CreateBucketOk
    \/ CreateBucketErr
    \/ UpdateBucketOk
    \/ UpdateBucketErr
    \/ ToInfraTeraContextOk
    \/ ToInfraTeraContextErr
    \/ TerraformCreateOk
    \/ TerraformCreateErr
    \/ UpdateKubeconfigFileOk
    \/ UpdateKubeconfigFileErr
    \/ ConfigureGcloudForCluster
    \/ CheckWorkersOnCreateOk
    \/ CheckWorkersOnCreateErr
    \/ ReadKubeconfigOk
    \/ ReadKubeconfigErr
    \/ UpdateGkeVaultConfig
    \/ DeployChartsOk
    \/ DeployChartsErr

GkeSpec == GkeInit /\ [][GkeNext]_vars

\* ------------------------------------------------------------------ ScalewayCR
\* (src/src/container_registry/scaleway_container_registry.rs)
MaxFill == 55

\* RepositoryNamingRule::MinLengthNotReached { min_length: 4 },
\* MaxLengthReached { max_length: 54 }, and Fixed::from_millis(1000).take(5).
min_length == 4
max_length == 54
take == 5

\* A name is a sequence of characters.  Of the characters, "a" and "1" are ASCII
\* letters and digits, "é" is a letter outside ASCII (two bytes in UTF-8), "_" is
\* neither a letter nor a digit.
Chars == {"a", "1", "-", ".", "_", "é"}

\* char::is_alphanumeric: the Unicode letters and digits.
is_alphanumeric(x) == x \in {"a", "1", "é"}

\* char::len_utf8
len_utf8(x) == IF x = "é" THEN 2 ELSE 1

\* String::len: the number of bytes of the UTF-8 encoding.
RECURSIVE len(_)
len(name) == IF name = <<>> THEN 0 ELSE len_utf8(Head(name)) + len(Tail(name))

MinLengthNotReached == [rule |-> "MinLengthNotReached", length |-> min_length]
MaxLengthReached == [rule |-> "MaxLengthReached", length |-> max_length]
AlphaNumericCharsDashesPeriodsOnly == [rule |-> "AlphaNumericCharsDashesPeriodsOnly", length |-> 0]

\* ScalewayCR::check_repository_naming_rules(name) -> Option<HashSet<RepositoryNamingRule>>
check_repository_naming_rules(name) ==
    LET broken_rules ==
            (IF len(name) < min_length THEN {MinLengthNotReached} ELSE {})
            \cup (IF len(name) > max_length THEN {MaxLengthReached} ELSE {})
            \cup (IF ~(\A i \in 1..Len(name) :
                          is_alphanumeric(name[i]) \/ name[i] = "-" \/ name[i] = ".")
                  THEN {AlphaNumericCharsDashesPeriodsOnly} ELSE {})
    IN IF broken_rules = {} THEN None ELSE Some(broken_rules)

\* The names the functions are called with: a run of up to MaxFill letters
\* followed by up to two characters of any kind.
RECURSIVE Fill(_)
Fill(n) == IF n = 0 THEN <<>> ELSE <<"a">> \o Fill(n - 1)

Names == {Fill(n) \o t : n \in 0..MaxFill, t \in SeqsUpTo(Chars, 2)}

\* The tags the registry may store for the image's name; image.tag is the first.
Tags == {"v1", "v2"}
ImageTag == "v1"

\* How a request sent through block_on_with_timeout ends other than well: the
\* API answers an error (Ok(Err(e))) or the request times out (Err(e)).
Failures == {"Err", "Timeout"}

ScalewayInit ==
    /\ kubernetes = [is_karpenter_enabled |-> FALSE, nodes_groups |-> <<>>,
                     is_dry_run_deploy |-> FALSE]
    /\ NotStarted
    /\ NoGkeCreation
    /\ other = None
    /\ evaluation = None
    /\ IdleService
    /\ \E tags \in SUBSET Tags :
          scaleway_cr = [fn |-> "none", arg |-> <<>>, pc |-> "idle", requests |-> <<>>,
                         tries |-> 0, result |-> [ret |-> "pending"], tags |-> tags]

\* fn is called with arg and stands at its first step.
ScalewayCalled(fn, arg, first) ==
    /\ scaleway_cr' = [scaleway_cr EXCEPT !.fn = fn, !.arg = arg, !.pc = first,
                                          !.requests = <<>>, !.tries = 0,
                                          !.result = [ret |-> "pending"]]
    /\ UNCHANGED <<gke, infra, service>>

\* The request was sent and answered (answer is "Ok" or a failure); the call goes
\* on to the step `to`.
ScalewayGoes(request, answer, to) ==
    /\ scaleway_cr' = [scaleway_cr EXCEPT
                          !.requests = Append(@, [request |-> request, answer |-> answer]),
                          !.pc = to]
    /\ UNCHANGED <<gke, infra, service>>

\* The request was sent and answered, and the call returns r.
ScalewayReturns(request, answer, r) ==
    /\ scaleway_cr' = [scaleway_cr EXCEPT
                          !.requests = Append(@, [request |-> request, answer |-> answer]),
                          !.pc = "done", !.result = r]
    /\ UNCHANGED <<gke, infra, service>>

\* ScalewayCR::check_repository_naming_rules(name), as the tests call it.
CheckRepositoryNamingRules ==
    /\ scaleway_cr.pc = "idle"
    /\ \E name \in Names :
          /\ scaleway_cr' = [scaleway_cr EXCEPT
                                !.fn = "check_repository_naming_rules", !.arg = name,
                                !.pc = "done",
                                !.result = [ret |-> "Returned",
                                            value |-> check_repository_naming_rules(name)]]
          /\ UNCHANGED <<gke, infra, service>>

\* create_registry_namespace(namespace_name): the naming rules first; with a
\* broken rule Err(RepositoryNameNotValid { broken_rules }) is returned at once.
CreateRegistryNamespace ==
    /\ scaleway_cr.pc = "idle"
    /\ \E namespace_name \in Names :
          LET broken_rules == check_repository_naming_rules(namespace_name)
          IN /\ scaleway_cr' = [scaleway_cr EXCEPT
                   !.fn = "create_registry_namespace", !.arg = namespace_name,
                   !.pc = IF IsSome(broken_rules) THEN "done" ELSE "create_namespace",
                   !.result = IF IsSome(broken_rules)
                              THEN [ret |-> "Err", error |-> "RepositoryNameNotValid",
                                    broken_rules |-> Unwrap(broken_rules)]
                              ELSE [ret |-> "pending"]]
             /\ UNCHANGED <<gke, infra, service>>

\* namespaces_api::create_namespace answers Ok(Ok(res)).
CreateNamespaceOk ==
    /\ scaleway_cr.pc = "create_namespace"
    /\ ScalewayReturns("create_namespace", "Ok", [ret |-> "Ok", value |-> "Repository"])

\* It answers an error or times out: Err(CannotCreateRepository).
CreateNamespaceErr ==
    /\ scaleway_cr.pc = "create_namespace"
    /\ \E f \in Failures :
          ScalewayReturns("create_namespace", f,
                          [ret |-> "Err", error |-> "CannotCreateRepository"])

\* What ScalewayCR::delete_image (the inherent one) returned goes through the
\* match of ContainerRegistry::delete_image: Ok(_) and
\* Err(ImageDoesntExistInRegistry) give Ok(()), any other error is returned.
delete_image_match(r) ==
    IF r.ret = "Ok" THEN [ret |-> "Ok"]
    ELSE IF r.error = "ImageDoesntExistInRegistry" THEN [ret |-> "Ok"]
    ELSE r

CannotDeleteImage(raw_error_message) ==
    [ret |-> "Err", error |-> "CannotDeleteImage", raw_error_message |-> raw_error_message]

\* ContainerRegistry::delete_image(image) is called (again, once it has returned).
DeleteImage ==
    /\ scaleway_cr.pc \in {"idle", "done"}
    /\ scaleway_cr.fn \in {"none", "delete_image"}
    /\ ScalewayCalled("delete_image", <<>>, "list_images")

\* get_image: images_api::list_images answers Ok(Ok(res)); the image is the one
\* whose tags contain image.tag.  Without it delete_image returns
\* Err(ImageDoesntExistInRegistry).
ListImagesOk ==
    /\ scaleway_cr.pc = "list_images"
    /\ IF ImageTag \in scaleway_cr.tags
       THEN ScalewayGoes("list_images", "Ok", "list_tags")
       ELSE ScalewayReturns("list_images", "Ok",
                delete_image_match([ret |-> "Err", error |-> "ImageDoesntExistInRegistry"]))

\* get_image: the listing answers an error or times out: `_ => return None`.
ListImagesErr ==
    /\ scaleway_cr.pc = "list_images"
    /\ \E f \in Failures :
          ScalewayReturns("list_images", f,
              delete_image_match([ret |-> "Err", error |-> "ImageDoesntExistInRegistry"]))

\* tags_api::list_tags answers Ok(Ok(tags)); the tag named image.tag is looked for.
ListTagsOk ==
    /\ scaleway_cr.pc = "list_tags"
    /\ IF ImageTag \in scaleway_cr.tags
       THEN ScalewayGoes("list_tags", "Ok", "delete_tag")
       ELSE ScalewayReturns("list_tags", "Ok", delete_image_match(CannotDeleteImage("Tag not found")))

ListTagsErr ==
    /\ scaleway_cr.pc = "list_tags"
    /\ \E f \in Failures :
          ScalewayReturns("list_tags", f, delete_image_match(CannotDeleteImage(f)))

\* tags_api::delete_tag answers Ok(Ok(_)): the tag is gone, Ok(image_to_delete).
DeleteTagOk ==
    /\ scaleway_cr.pc = "delete_tag"
    /\ ImageTag \in scaleway_cr.tags
    /\ scaleway_cr' = [scaleway_cr EXCEPT
                          !.requests = Append(@, [request |-> "delete_tag", answer |-> "Ok"]),
                          !.pc = "done",
                          !.result = delete_image_match([ret |-> "Ok"]),
                          !.tags = @ \ {ImageTag}]
    /\ UNCHANGED <<gke, infra, service>>

DeleteTagErr ==
    /\ scaleway_cr.pc = "delete_tag"
    /\ \E f \in Failures :
          ScalewayReturns("delete_tag", f, delete_image_match(CannotDeleteImage(f)))

\* Another client of the registry removes a tag of the image.
TagRemovedElsewhere ==
    /\ scaleway_cr.fn = "delete_image"
    /\ \E t \in scaleway_cr.tags :
          scaleway_cr' = [scaleway_cr EXCEPT !.tags = @ \ {t}]
    /\ UNCHANGED <<gke, infra, service>>

\* ContainerRegistry::image_exists(image) is called.
ImageExists ==
    /\ scaleway_cr.pc = "idle"
    /\ ScalewayCalled("image_exists", <<>>, "does_image_exist_remotely")

\* Mutant: a `does not exist` answer ends the retries with false.
DoesImageExistRemotelyStopsOnFalse ==
    /\ scaleway_cr.pc = "does_image_exist_remotely"
    /\ \E answer \in {"Ok(true)", "Ok(false)", "Err"} :
          /\ answer = "Ok(true)" => ImageTag \in scaleway_cr.tags
          /\ IF answer = "Ok(true)"
             THEN ScalewayReturns("does_image_exist_remotely", answer,
                                  [ret |-> "Returned", value |-> TRUE])
             ELSE IF answer = "Err" /\ scaleway_cr.tries < take
             THEN /\ scaleway_cr' = [scaleway_cr EXCEPT
                        !.requests = Append(@, [request |-> "does_image_exist_remotely",
                                                answer |-> answer]),
                        !.tries = @ + 1]
                  /\ UNCHANGED <<gke, infra, service>>
             ELSE ScalewayReturns("does_image_exist_remotely", answer,
                                  [ret |-> "Returned", value |-> FALSE])

\* One run of the closure retry::retry(Fixed::from_millis(1000).take(5), ..)
\* calls: Ok(true) ends with Ok; anything else is Retry(false), after which the
\* next delay is taken from the iterator, or, when none is left, retry returns
\* Err.  image_exists returns image_exists.is_ok().
DoesImageExistRemotely ==
    /\ scaleway_cr.pc = "does_image_exist_remotely"
    /\ \E answer \in {"Ok(true)", "Ok(false)", "Err"} :
          /\ answer = "Ok(true)" => ImageTag \in scaleway_cr.tags
          /\ IF answer = "Ok(true)"
             THEN ScalewayReturns("does_image_exist_remotely", answer,
                                  [ret |-> "Returned", value |-> TRUE])
             ELSE IF scaleway_cr.tries < take
             THEN /\ scaleway_cr' = [scaleway_cr EXCEPT
                        !.requests = Append(@, [request |-> "does_image_exist_remotely",
                                                answer |-> answer]),
                        !.tries = @ + 1]
                  /\ UNCHANGED <<gke, infra, service>>
             ELSE ScalewayReturns("does_image_exist_remotely", answer,
                                  [ret |-> "Returned", value |-> FALSE])

ScalewayNext ==
    \/ CheckRepositoryNamingRules
    \/ CreateRegistryNamespace
    \/ CreateNamespaceOk
    \/ CreateNamespaceErr
    \/ DeleteImage
    \/ ListImagesOk
    \/ ListImagesErr
    \/ ListTagsOk
    \/ ListTagsErr
    \/ DeleteTagOk
    \/ DeleteTagErr
    \/ TagRemovedElsewhere
    \/ ImageExists
    \/ DoesImageExistRemotely

ScalewaySpec == ScalewayInit /\ [][ScalewayNext]_vars

\* ================================================================== claims
Cw == self.is_cluster_wide_resources_allowed

\* The workloads the action's listing returns (the layout never changes).
Targets == Matched(Kind, TargetNamespace, Cw, [labels |-> self.selector])

Succeeded == pc = "done" /\ result.ret = "Ok"
Failed == pc = "done" /\ result.ret = "Err"
IsTimeoutError(r) == r.ret = "Err" /\ r.error.raw_error.text # "kube_err"
IsKubeError(r) == r.ret = "Err" /\ r.error.raw_error.text = "kube_err"

\* The workload listing of the current call has returned (Ok).
ListingReturned == idx > 0

\* The desired state a workload has once the current call has patched it.
HasPatchedValue(w) ==
    IF Kind = "CronJob" THEN suspend[w] = (op = "on_pause")
    ELSE replicas[w] = (IF op = "on_pause" THEN desired ELSE 1)

\* status.replicas as a listed snapshot shows it (0 when absent).
ObservedReplicas(o) ==
    IF o.status = None THEN 0
    ELSE IF Kind = "Deployment"
         THEN (IF o.status[1].replicas = None THEN 0 ELSE o.status[1].replicas[1])
         ELSE o.status[1].replicas

C2_NoOpKinds ==
    /\ [](Kind \in {"DaemonSet", "Job"} =>
            /\ api = {}
            /\ patched = {}
            /\ podObs = None
            /\ op # "none" => Succeeded)
    /\ [][(Kind \in {"DaemonSet", "Job"}) => UNCHANGED cluster]_vars

C2_Witness ==
    /\ Kind = "Job"
    /\ Cw
    /\ self.selector = "app=simple"
    /\ prev.op = "on_pause"
    /\ op = "unpause_if_needed"
    /\ Succeeded
    /\ \E w \in Workloads : replicas[w] > 0

\* C3: a successful pause of a Deployment or StatefulSet has seen, in its last
\* pod listing, exactly desired_size pods.
C3_SuccessMeansConverged ==
    (op = "on_pause" /\ Kind \in ScalableKinds /\ Succeeded) => podObs = Some(desired)

\* C4: after a successful pause and a successful resume_if_needed, every matched
\* Deployment / StatefulSet has desired replica count 1.
C4_RoundTripYieldsOne ==
    (Kind \in ScalableKinds /\ prev.op = "on_pause" /\ prev.ret = "Ok"
        /\ op = "unpause_if_needed" /\ Succeeded)
    => \A w \in Targets : replicas[w] = 1

\* C5: resume_if_needed patches only workloads whose listed status shows replica
\* count 0; the others keep their replica count.
C5_ResumeGuard ==
    /\ []((op = "unpause_if_needed" /\ Kind \in ScalableKinds) =>
            \A i \in 1..Len(listed) :
                listed[i].id \in patched => ObservedReplicas(listed[i]) = 0)
    /\ [][(op = "unpause_if_needed" /\ op' = op /\ calls' = calls /\ Kind \in ScalableKinds) =>
            \A i \in 1..Len(listed) :
                ObservedReplicas(listed[i]) > 0 =>
                    replicas'[listed[i].id] = replicas[listed[i].id]]_vars

C5_Witness ==
    /\ op = "unpause_if_needed"
    /\ Kind = "StateFulSet"
    /\ Succeeded
    /\ \E i, j \in 1..Len(listed) :
          /\ ObservedReplicas(listed[i]) = 2
          /\ replicas[listed[i].id] = 2
          /\ listed[i].id \notin patched
          /\ listed[j].id \in patched
          /\ replicas[listed[j].id] = 1

\* C6: a successful pause leaves every matched CronJob suspended, a successful
\* resume leaves every matched CronJob not suspended whatever it was before, and
\* neither lists pods.
C6_CronJobRoundTrip ==
    (op \in {"on_pause", "unpause_if_needed"} /\ Kind = "CronJob") =>
        /\ "pods" \notin api
        /\ podObs = None
        /\ Succeeded => /\ patched = Targets
                        /\ \A w \in Targets : suspend[w] = (op = "on_pause")

C6_Witness ==
    /\ Kind = "CronJob"
    /\ prev.op = "unpause_if_needed"
    /\ prev.ret = "Ok"
    /\ op = "on_pause"
    /\ Succeeded
    /\ Cardinality(Targets) = 2

C8_TimeoutNoRollback ==
    /\ []((op = "on_pause" /\ pc = "done" /\ ret = "Elapsed") =>
            \A w \in patched : HasPatchedValue(w))
    /\ [][(op = "on_pause" /\ ret # "Elapsed" /\ ret' = "Elapsed") =>
            (pc' = "done" /\ UNCHANGED <<replicas, suspend, patched>>)]_vars
    /\ [][(op = "on_pause" /\ op' = op /\ calls' = calls) =>
            \A w \in Workloads :
                (replicas'[w] # replicas[w] \/ suspend'[w] # suspend[w]) =>
                    /\ pc = "patch"
                    /\ ret' = "pending"
                    /\ w \notin patched
                    /\ w \in patched'
                    /\ HasPatchedValue(w)']_vars

C8_Witness ==
    /\ op = "on_pause"
    /\ Kind = "StateFulSet"
    /\ pc = "done"
    /\ ret = "Elapsed"
    /\ Cardinality(Targets) = 2
    /\ \E w, v \in Targets :
          /\ w \in patched
          /\ replicas[w] = 0
          /\ v \notin patched
          /\ replicas[v] = 2

C10_PodListErrorFailsPause ==
    (op = "on_pause" /\ Kind \in ScalableKinds /\ pc = "done" /\ podObs = PodListError) =>
        result.ret = "Err"

\* C11: an error returned by the per-resource wait of a pause is dropped: the step
\* that ends a wait (other than the enclosing timeout) never yields an error and
\* takes the loop to the next listed workload it patches, or past the end to the
\* pod-count poll (Deployment, StatefulSet) or to success (CronJob).
C11_WaitErrorSwallowed ==
    [][(op = "on_pause" /\ pc = "wait" /\ pc' # "wait" /\ ret' # "Elapsed") =>
          LET j == NextToPatch(listed, idx + 1)
          IN /\ ret' # "KubeErr"
             /\ result'.ret # "Err"
             /\ idx' = j
             /\ UNCHANGED <<cluster, listed, patched>>
             /\ IF j <= Len(listed) THEN pc' = "patch" /\ ret' = "pending"
                ELSE IF Kind \in ScalableKinds THEN pc' = "pods" /\ ret' = "pending"
                ELSE pc' = "done" /\ ret' = "Ok"]_vars

\* The wait on the first listed workload ended while the workload still had
\* ready replicas (so by an error), and the loop stands at the second one.
C11_Witness ==
    /\ op = "on_pause"
    /\ Kind = "Deployment"
    /\ pc = "patch"
    /\ idx = 2
    /\ listed[1].id \in patched
    /\ ~Converged(listed[1].id)
    /\ listed[2].id \notin patched

HookOps == {"on_create", "on_delete", "on_restart"}

\* C13: on_create, on_delete and on_restart return success at once, issue no API
\* call and change no workload; a desired state only ever changes in a patch step
\* of on_pause or unpause_if_needed; on_pause always runs the executor with
\* desired size 0 (replicas 0 / suspend true), the action's selector, kind and
\* cluster-wide flag, and reports the action's timeout when it elapses.
C13_HooksAreNoOps ==
    /\ [](op \in {"none", "on_pause"} \cup HookOps)
    /\ [](op \in HookOps =>
            /\ Succeeded
            /\ api = {}
            /\ patched = {}
            /\ listed = <<>>
            /\ podObs = None)
    /\ [][(op' \in HookOps /\ calls' # calls) => UNCHANGED cluster]_vars
    /\ [][(replicas' # replicas \/ suspend' # suspend) =>
            (op \in {"on_pause", "unpause_if_needed"} /\ pc = "patch")]_vars
    /\ [](op = "on_pause" =>
            /\ desired = 0
            /\ Params = (IF Kind = "CronJob" THEN get_patch_suspend(self.selector, TRUE)
                         ELSE get_patch_merge(self.selector, 0))
            /\ \A i \in 1..Len(listed) : listed[i].id \in Targets
            /\ \A w \in patched :
                  w \in Targets /\ (IF Kind = "CronJob" THEN suspend[w] ELSE replicas[w] = 0)
            /\ ret = "Elapsed" => result.error.raw_error.secs = self.timeout)

\* A restart after a successful pause: the workloads stay paused.
C13_Witness ==
    /\ Kind = "Deployment"
    /\ prev.op = "on_pause"
    /\ prev.ret = "Ok"
    /\ op = "on_restart"
    /\ Succeeded
    /\ Cardinality(Targets) = 2
    /\ \A w \in Targets : replicas[w] = 0

\* C12: a pause that waits on a patched workload while listed workloads are still
\* to be patched goes on to patch the next one, unless the awaited workload
\* comes to satisfy its condition or the enclosing timeout has elapsed by then:
\* the wait on a workload that never converges ends by itself.
C12_WaitTimeoutSwallowed ==
    (op = "on_pause" /\ pc = "wait" /\ NextToPatch(listed, idx + 1) <= Len(listed))
        ~> (\/ pc = "wait" /\ Converged(listed[idx].id)
            \/ op = "on_pause" /\ pc = "patch"
            \/ pc = "done" /\ ret = "Elapsed")

\* ------------------------------------------------ claims on pause_eks_cluster
NumCalls == Len(collaborator_calls)
CallsOf(fn) == {i \in 1..NumCalls : collaborator_calls[i].fn = fn}
FailedCalls == {i \in 1..NumCalls : ~collaborator_calls[i].ok}
LegacyBranch ==
    {"get_rusoto_eks_client", "should_update_desired_nodes", "get_pods",
     "define_cluster_upgrade_timeout", "eks_tera_context", "TerraformInfraResources::pause"}
LegacyOrder ==
    <<"mk_kube_client", "get_rusoto_eks_client", "should_update_desired_nodes", "get_pods",
      "define_cluster_upgrade_timeout", "eks_tera_context", "TerraformInfraResources::pause">>
KubeClientCreated == \E i \in CallsOf("mk_kube_client") : collaborator_calls[i].ok

\* C14 (as stated): with Karpenter enabled, a pause_eks_cluster that has returned
\* has called the Karpenter pause exactly once and nothing of the legacy branch;
\* with Karpenter disabled the Karpenter pause is never called.
C14_KarpenterPauseExactlyOnce ==
    /\ kubernetes.is_karpenter_enabled =>
          /\ \A f \in LegacyBranch : CallsOf(f) = {}
          /\ infra_pc = "done" => Cardinality(CallsOf("Karpenter::pause")) = 1
    /\ ~kubernetes.is_karpenter_enabled => CallsOf("Karpenter::pause") = {}

\* C14 (amended): with Karpenter enabled, once the kube client is there the
\* Karpenter pause is called exactly once (never when the kube client could not
\* be made), the call returns what it returned, and no call of the legacy
\* branch is ever made nor any of its locals bound; with Karpenter disabled the
\* Karpenter pause is never called.
C14_BranchesExclusive ==
    /\ kubernetes.is_karpenter_enabled =>
          /\ \A f \in LegacyBranch : CallsOf(f) = {}
          /\ Cardinality(CallsOf("Karpenter::pause")) <= 1
          /\ ~KubeClientCreated => CallsOf("Karpenter::pause") = {}
          /\ (infra_pc = "done" /\ KubeClientCreated) =>
                /\ Cardinality(CallsOf("Karpenter::pause")) = 1
                /\ pause_result = (IF FailedCalls = {} THEN "Ok" ELSE "Err")
          /\ aws_eks_client = None
          /\ node_groups_with_desired_states = None
          /\ pods_list = None
          /\ cluster_upgrade_timeout_in_min = None
          /\ tera_context = None
    /\ ~kubernetes.is_karpenter_enabled => CallsOf("Karpenter::pause") = {}

C14_Witness ==
    /\ kubernetes.is_karpenter_enabled
    /\ Len(kubernetes.nodes_groups) = 2
    /\ infra_pc = "done"
    /\ pause_result = "Err"
    /\ Cardinality(CallsOf("Karpenter::pause")) = 1
    /\ NumCalls = 2

\* C15: in the legacy branch a failed pod listing leaves an empty pod list, the
\* timeout is derived from it, and the call goes on to render the context and,
\* when that succeeds, to the targeted pause: it never returns on that failure.
C15_PodListingBestEffort ==
    \A i \in CallsOf("get_pods") :
        ~collaborator_calls[i].ok =>
            /\ pods_list = Some(<<>>)
            /\ NumCalls > i =>
                  /\ collaborator_calls[i + 1].fn = "define_cluster_upgrade_timeout"
                  /\ collaborator_calls[i + 1].args[1] = <<>>
            /\ NumCalls > i + 1 => collaborator_calls[i + 2].fn = "eks_tera_context"
            /\ (NumCalls = i + 2 /\ collaborator_calls[i + 2].ok) =>
                  infra_pc = "TerraformInfraResources::pause"
            /\ NumCalls > i + 2 =>
                  collaborator_calls[i + 3].fn = "TerraformInfraResources::pause"
            /\ infra_pc = "done" =>
                  /\ NumCalls >= i + 2
                  /\ pause_result = "Err" <=> ~collaborator_calls[NumCalls].ok

C15_Witness ==
    /\ infra_pc = "done"
    /\ pause_result = "Ok"
    /\ \E i \in CallsOf("get_pods") : ~collaborator_calls[i].ok
    /\ CallsOf("TerraformInfraResources::pause") # {}
    /\ Len(kubernetes.nodes_groups) = 2

\* C16: when a call other than the pod listing has failed, pause_eks_cluster
\* returns an error.
C16_OnlyPodListingAbsorbed ==
    (infra_pc = "done"
        /\ \E i \in FailedCalls : collaborator_calls[i].fn # "get_pods")
    => pause_result = "Err"

\* C17: the legacy branch calls its collaborators in the one order sizing, pod
\* listing, timeout derivation, rendering, targeted pause; the context handed to
\* the pause holds the timeout that was derived; success is returned only after
\* the targeted pause, as the last call, has returned success.
C17_LegacyOrder ==
    ~kubernetes.is_karpenter_enabled =>
        /\ NumCalls <= Len(LegacyOrder)
        /\ \A i \in 1..NumCalls : collaborator_calls[i].fn = LegacyOrder[i]
        /\ \A i \in CallsOf("eks_tera_context") :
              /\ cluster_upgrade_timeout_in_min # None
              /\ collaborator_calls[i].args[2] = Unwrap(cluster_upgrade_timeout_in_min)
        /\ \A i \in CallsOf("TerraformInfraResources::pause") :
              /\ cluster_upgrade_timeout_in_min # None
              /\ collaborator_calls[i].args[2].cluster_upgrade_timeout_in_min =
                    Unwrap(cluster_upgrade_timeout_in_min)
              /\ collaborator_calls[i - 1].ok
        /\ pause_result = "Ok" =>
              /\ NumCalls = Len(LegacyOrder)
              /\ collaborator_calls[NumCalls].ok
              /\ infra_pc = "done"

C17_Witness ==
    /\ ~kubernetes.is_karpenter_enabled
    /\ pause_result = "Ok"
    /\ cluster_upgrade_timeout_in_min = Some(MaxTimeoutInMin)
    /\ pods_list = Some(<<1>>)
    /\ NumCalls = Len(LegacyOrder)

\* C18: in the legacy branch the only call that changes infrastructure is one
\* TerraformInfraResources::pause, and its targets are exactly the one prefix
\* "aws_eks_node_group.".
C18_OnlyTargetedPause ==
    ~kubernetes.is_karpenter_enabled =>
        /\ \A i \in 1..NumCalls :
              collaborator_calls[i].fn \in
                  {"mk_kube_client", "get_rusoto_eks_client", "should_update_desired_nodes",
                   "get_pods", "define_cluster_upgrade_timeout", "eks_tera_context",
                   "TerraformInfraResources::pause"}
        /\ Cardinality(CallsOf("TerraformInfraResources::pause")) <= 1
        /\ \A i \in CallsOf("TerraformInfraResources::pause") :
              collaborator_calls[i].args[1] = <<"aws_eks_node_group.">>

C18_Witness ==
    /\ ~kubernetes.is_karpenter_enabled
    /\ infra_pc = "done"
    /\ pause_result = "Err"
    /\ \E i \in CallsOf("TerraformInfraResources::pause") :
          /\ ~collaborator_calls[i].ok
          /\ collaborator_calls[i].args[1] = <<"aws_eks_node_group.">>
          /\ ~collaborator_calls[i].args[3]

\* C19: the context handed to the targeted pause has an empty eks_worker_nodes
\* list, whatever the sizing collaborator answered.
C19_WorkerNodesEmptied ==
    /\ tera_context # None => Unwrap(tera_context).eks_worker_nodes = <<>>
    /\ \A i \in CallsOf("TerraformInfraResources::pause") :
          collaborator_calls[i].args[2].eks_worker_nodes = <<>>

C19_Witness ==
    /\ CallsOf("TerraformInfraResources::pause") # {}
    /\ node_groups_with_desired_states # None
    /\ Len(Unwrap(node_groups_with_desired_states)) = 2
    /\ \A i \in 1..2 : Unwrap(node_groups_with_desired_states)[i].desired_nodes > 0
    /\ \E i \in CallsOf("eks_tera_context") : Len(collaborator_calls[i].args[1]) = 2

\* A second on_pause has started after an on_pause that timed out before it had
\* patched every matched workload.
SecondPauseAfterTimeout ==
    /\ prev.op = "on_pause"
    /\ prev.ret = "Elapsed"
    /\ op = "on_pause"
    /\ pc = "list"
    /\ Kind \in WorkloadKinds
    /\ \E v \in Targets : ~HasPatchedValue(v)

\* The second on_pause has returned: success with every matched workload paused,
\* unless an API call failed or its timeout was too short.
SecondPauseRecovered ==
    /\ prev.op = "on_pause"
    /\ prev.ret = "Elapsed"
    /\ op = "on_pause"
    /\ pc = "done"
    /\ \/ ret \in {"KubeErr", "Elapsed"}
       \/ ret = "Ok" /\ \A w \in Targets : HasPatchedValue(w)

\* No pod in scope carries the selector without belonging to a matched workload.
PodsAreOfTargets ==
    \A w \in Workloads :
        (InScope(w, TargetNamespace, Cw) /\ Selected(w, [labels |-> self.selector])
            /\ w \notin Targets) => pods[w] = 0

\* C20 (as stated): after an on_pause that timed out with matched workloads left
\* unpatched, a second on_pause eventually returns success with every matched
\* workload paused, given that the cluster removes the pods of scaled down
\* workloads, no API call fails and the timeout does not cut in.
C20_RecoveryByReinvocation == SecondPauseAfterTimeout ~> SecondPauseRecovered

\* C20 (amended): the same holds for a selector whose pods in scope all belong to
\* matched workloads; and whenever the second on_pause returns success, every
\* matched workload is paused.
C20_RecoveryWhenPodsAreOfTargets ==
    /\ []((prev.op = "on_pause" /\ prev.ret = "Elapsed" /\ op = "on_pause"
            /\ Kind \in WorkloadKinds /\ Succeeded) =>
            \A w \in Targets : HasPatchedValue(w))
    /\ (SecondPauseAfterTimeout /\ PodsAreOfTargets) ~> SecondPauseRecovered

C20_Witness ==
    /\ prev.op = "on_pause"
    /\ prev.ret = "Elapsed"
    /\ op = "on_pause"
    /\ Kind = "StateFulSet"
    /\ Succeeded
    /\ podObs = Some(0)
    /\ Cardinality(Targets) = 2
    /\ patched = Targets
    /\ \A w \in Targets : replicas[w] = 0 /\ pods[w] = 0
\* -------------------------------------------------- claims on concurrent calls
Rival == Unwrap(other)

\* The workloads the other thread's listing returns.
RivalTargets ==
    Matched(Rival.self.k8s_resource_type, TargetNamespace,
            Rival.self.is_cluster_wide_resources_allowed, [labels |-> Rival.self.selector])

RivalSucceeded == Rival.pc = "done" /\ Rival.result.ret = "Ok"

\* C21: two on_pause calls racing on overlapping selectors of one kind: whatever
\* the interleaving of their steps, a desired state is only ever written on a
\* workload matched by the writing call and only to replica count 0 (suspend
\* true), and once both calls have returned success every workload matched by
\* both has replica count 0 (suspend true).
C21_PausesSafeToRace ==
    /\ [][(op # "unpause_if_needed" /\ Rival.op # "unpause_if_needed") =>
            \A w \in Workloads :
                /\ replicas'[w] # replicas[w] => (replicas'[w] = 0 /\ w \in Targets)
                /\ suspend'[w] # suspend[w] => (suspend'[w] = TRUE /\ w \in Targets)]_vars
    /\ []((op = "on_pause" /\ Succeeded /\ Rival.op = "on_pause" /\ RivalSucceeded) =>
            \A w \in Targets \cap RivalTargets :
                IF Kind = "CronJob" THEN suspend[w] ELSE replicas[w] = 0)

\* Both pauses are in flight: this one waits on a workload it has patched, the
\* other one, of another scope, has patched the same workload.
C21_Witness ==
    /\ op = "on_pause"
    /\ Rival.op = "on_pause"
    /\ Kind = "Deployment"
    /\ Cw # Rival.self.is_cluster_wide_resources_allowed
    /\ pc = "wait"
    /\ Rival.pc = "wait"
    /\ listed[idx].id \in Rival.patched
    /\ Rival.listed[Rival.idx].id # listed[idx].id
    /\ replicas[listed[idx].id] = 0
    /\ pods[listed[idx].id] > 0
\* The step by which the call of the running thread returns success.
ReturnsSuccess == other' = other /\ pc # "done" /\ pc' = "done" /\ ret' = "Ok"

\* C22 (as stated): an on_pause racing with an unpause_if_needed: the pause of a
\* Deployment / StatefulSet that returns success leaves every workload it
\* matched at replica count 0 at the moment it returns, and a replica count is
\* only ever written to 0 or 1.
C22_PauseResumeSafeToRace ==
    /\ [][(op = "on_pause" /\ Kind \in ScalableKinds /\ ReturnsSuccess) =>
            \A w \in Targets : replicas'[w] = 0]_vars
    /\ [][\A w \in Workloads : replicas'[w] # replicas[w] => replicas'[w] \in {0, 1}]_vars

\* C22 (amended): the pause that returns success has patched every workload it
\* matched to 0, and at the moment it returns each of them has replica count 0,
\* or 1 when the racing unpause_if_needed has patched it; a replica count is
\* only ever written by a patch step, on a workload the writer matched, to 0 by
\* a pause and to 1 by a resume.
C22_LastWriterWins ==
    /\ [][(op = "on_pause" /\ Kind \in ScalableKinds /\ ReturnsSuccess) =>
            \A w \in Targets :
                /\ w \in patched
                /\ \/ replicas'[w] = 0
                   \/ /\ replicas'[w] = 1
                      /\ Rival.op = "unpause_if_needed"
                      /\ w \in Rival.patched]_vars
    /\ [][\A w \in Workloads :
            replicas'[w] # replicas[w] =>
                /\ pc = "patch"
                /\ w \in Targets
                /\ replicas'[w] = (IF op = "on_pause" THEN 0 ELSE 1)]_vars

\* The pause has returned success; a workload it patched to 0 is at 1, patched
\* by the resume that listed it at 0 replicas.
C22_Witness ==
    /\ op = "on_pause"
    /\ Kind = "Deployment"
    /\ Succeeded
    /\ podObs = Some(0)
    /\ Rival.op = "unpause_if_needed"
    /\ \E w \in Targets :
          /\ w \in patched
          /\ w \in Rival.patched
          /\ replicas[w] = 1
\* ------------------------------------------------ claims on the order of steps
\* The listed workloads the loop of the current call has patched when it stands
\* at position i: those before i, and the one at i once its wait has started.
PatchedUpTo(i, waiting) ==
    {listed[j].id : j \in {k \in 1..Len(listed) :
                              /\ patches(listed[k])
                              /\ k < i \/ (k = i /\ waiting)}}

\* C23: a pause processes the listed workloads one at a time in listing order:
\* a wait starts only by the patch of the same workload, nothing is patched
\* while a wait is going on, and when the patch of a workload is issued exactly
\* the workloads listed before it have been patched and their waits have ended.
C23_OneAtATimeInListingOrder ==
    /\ []((op = "on_pause" /\ pc \in {"patch", "wait", "pods"}) =>
            patched = PatchedUpTo(idx, pc = "wait"))
    /\ [][(op = "on_pause" /\ calls' = calls /\ pc' = "wait" /\ pc # "wait") =>
            /\ pc = "patch"
            /\ idx' = idx
            /\ patched' = patched \cup {listed[idx].id}
            /\ listed[idx].id \notin patched]_vars
    /\ [][(op = "on_pause" /\ calls' = calls /\ patched' # patched) =>
            (pc = "patch" /\ pc' = "wait")]_vars
    /\ [][(op = "on_pause" /\ calls' = calls /\ pc = "wait") =>
            UNCHANGED <<replicas, suspend, patched>>]_vars
    /\ [][(op = "on_pause" /\ calls' = calls /\ idx' # idx /\ idx > 0) =>
            (pc = "wait" /\ idx' > idx)]_vars

\* The wait on the first listed workload has ended with its condition met and
\* the second one is about to be patched.
C23_Witness ==
    /\ op = "on_pause"
    /\ Kind = "StateFulSet"
    /\ Len(listed) = 2
    /\ pc = "patch"
    /\ idx = 2
    /\ patched = {listed[1].id}
    /\ Converged(listed[1].id)
    /\ replicas[listed[2].id] > 0
\* The pod-count poll of the current call has started.
PollStarted == pc = "pods" \/ "pods" \in api

\* C24: in a pause of a Deployment / StatefulSet the pod-count poll starts only
\* when the loop is past the end of the listing, every listed workload having
\* been patched or skipped for lack of a name or namespace; once the poll has
\* started the call patches nothing and only polls or returns.
C24_PollAfterAllPatched ==
    /\ []((op = "on_pause" /\ PollStarted) =>
            /\ Kind \in ScalableKinds
            /\ idx = Len(listed) + 1
            /\ \A i \in 1..Len(listed) :
                  \/ listed[i].id \in patched
                  \/ ~has_namespace_and_name(listed[i]))
    /\ [][(op = "on_pause" /\ calls' = calls /\ pc' = "pods" /\ pc # "pods") =>
            pc \in {"list", "wait"}]_vars
    /\ [][(op = "on_pause" /\ calls' = calls /\ PollStarted) =>
            /\ UNCHANGED <<replicas, suspend, patched, idx>>
            /\ pc' \in {"pods", "done"}]_vars

\* The poll runs after one listed workload was patched and one, without a name,
\* was skipped.
C24_Witness ==
    /\ op = "on_pause"
    /\ Kind = "Deployment"
    /\ pc = "pods"
    /\ podObs # None
    /\ Len(listed) = 2
    /\ Cardinality(patched) = 1
    /\ \E i \in 1..2 : listed[i].metadata.name = None /\ replicas[listed[i].id] > 0
\* The workloads of the action's kind carrying the selector's label, and among
\* them those of the call's target namespace.
Labelled == {w \in Workloads : workloads[w].kind = Kind /\ self.selector \in workloads[w].labels}
LabelledInTarget == {w \in Labelled : workloads[w].namespace = Some(TargetNamespace)}

\* The pods carrying the selector's label, in every namespace and in the target one.
LabelledPods ==
    SumPods({w \in Workloads : self.selector \in workloads[w].labels}, pods)
LabelledPodsInTarget ==
    SumPods({w \in Workloads : /\ self.selector \in workloads[w].labels
                               /\ workloads[w].namespace = Some(TargetNamespace)}, pods)

\* C25: a cluster-wide call lists the workloads and the pods of every namespace,
\* a namespaced call those of its target namespace only; a patch changes the
\* workload that has the namespace and the name of the listed object the loop
\* stands at, whichever the target namespace of the call; a namespaced call
\* patches nothing outside its target namespace.
C25_ListBroadlyActNarrowly ==
    /\ []((op \in {"on_pause", "unpause_if_needed"} /\ ListingReturned) =>
            {listed[i].id : i \in 1..Len(listed)} = (IF Cw THEN Labelled ELSE LabelledInTarget))
    /\ [][(calls' = calls /\ pc = "pods" /\ podObs' # podObs /\ podObs' # PodListError) =>
            podObs' = Some(IF Cw THEN LabelledPods ELSE LabelledPodsInTarget)]_vars
    /\ [][\A w \in Workloads :
            (replicas'[w] # replicas[w] \/ suspend'[w] # suspend[w] \/ (w \in patched' \ patched)) =>
                /\ pc \in {"patch"}
                /\ workloads[w].namespace = listed[idx].metadata.namespace
                /\ workloads[w].name = listed[idx].metadata.name
                /\ workloads[w].kind = Kind
                /\ ~Cw => workloads[w].namespace = Some(TargetNamespace)]_vars

\* A cluster-wide resume has patched a workload of another namespace and left
\* alone the running workload of the same name in the target namespace.
C25_Witness ==
    /\ op = "unpause_if_needed"
    /\ Cw
    /\ Kind = "Deployment"
    /\ Succeeded
    /\ \E w, v \in Labelled :
          /\ workloads[w].namespace = Some("ns2")
          /\ workloads[v].namespace = Some(TargetNamespace)
          /\ workloads[w].name = workloads[v].name
          /\ workloads[w].name # None
          /\ patched = {w}
          /\ replicas[w] = 1
          /\ replicas[v] = 2
\* A listed object without a namespace or without a name.
Nameless(o) == o.metadata.namespace = None \/ o.metadata.name = None

\* C26: pause and resume skip a listed object without namespace or name: they
\* issue no patch and no wait for it and never change its desired state, it is
\* no cause for an error (a listing of such objects only gives no kube error
\* and no patch or wait call), and the other listed objects are processed: a
\* call that returns success has patched every listed object that has both (and,
\* for a resume, shows 0 replicas).
C26_NamelessSkipped ==
    /\ [](op \in {"on_pause", "unpause_if_needed"} =>
            /\ \A i \in 1..Len(listed) : Nameless(listed[i]) => listed[i].id \notin patched
            /\ pc \in {"patch", "wait"} => ~Nameless(listed[idx])
            /\ (ListingReturned /\ \A i \in 1..Len(listed) : Nameless(listed[i])) =>
                  /\ "patch" \notin api
                  /\ "wait" \notin api
                  /\ ret # "KubeErr"
            /\ (Succeeded /\ ListingReturned) =>
                  \A i \in 1..Len(listed) :
                      listed[i].id \in patched <=>
                          /\ ~Nameless(listed[i])
                          /\ (op = "unpause_if_needed" /\ Kind \in ScalableKinds) =>
                                ObservedReplicas(listed[i]) = 0)
    /\ [][\A w \in Workloads :
            (workloads[w].namespace = None \/ workloads[w].name = None) =>
                (replicas'[w] = replicas[w] /\ suspend'[w] = suspend[w])]_vars

\* A pause has returned success: it skipped the first listed CronJob, which has
\* no name and is not suspended, and suspended the second one.
C26_Witness ==
    /\ op = "on_pause"
    /\ Kind = "CronJob"
    /\ Succeeded
    /\ Len(listed) = 2
    /\ listed[1].metadata.name = None
    /\ ~suspend[listed[1].id]
    /\ patched = {listed[2].id}
    /\ suspend[listed[2].id]
    /\ prev.op = "none"
\* ------------------------------------------ claims on the convergence predicates
\* The ready replicas an object shows: 0 when the object, its status or the
\* count is missing.
ReadyShown(object) ==
    IF object = None THEN 0
    ELSE IF object[1].status = None THEN 0
    ELSE IF object[1].status[1].ready_replicas = None THEN 0
    ELSE object[1].status[1].ready_replicas[1]

\* The suspend flag is there and is b.
SuspendShownIs(object, b) ==
    /\ object # None
    /\ object[1].spec # None
    /\ object[1].spec[1].suspend # None
    /\ object[1].spec[1].suspend[1] = b

\* C27: the ready-replicas conditions built for n hold exactly when the ready
\* replicas shown equal n, a missing object, status or count being 0; the
\* suspend condition built for b holds exactly when the suspend flag is there
\* and equals b, so for a missing object, spec or flag it holds for no b.
C27_ConvergencePredicates ==
    (evaluation # None /\ Unwrap(evaluation).value # None) =>
        LET fn == Unwrap(evaluation).fn
            arg == Unwrap(evaluation).args[1]
            object == Unwrap(evaluation).args[2]
            value == Unwrap(Unwrap(evaluation).value)
        IN IF fn \in {"has_deployment_ready_replicas", "has_statefulset_ready_replicas"}
           THEN value = (ReadyShown(object) = arg)
           ELSE value = SuspendShownIs(object, arg)

\* The suspend condition built for false does not hold of a CronJob whose spec
\* has no suspend field.
C27_Witness ==
    /\ evaluation # None
    /\ Unwrap(evaluation).fn = "has_cron_job_suspended_value"
    /\ Unwrap(evaluation).args = <<FALSE, Some([spec |-> Some([suspend |-> None])])>>
    /\ Unwrap(evaluation).value = Some(FALSE)
\* The condition built for the desired size of the current call.
ConditionForDesired(object) ==
    IF Kind = "StateFulSet" THEN has_statefulset_ready_replicas(desired, object)
    ELSE IF Kind = "Deployment" THEN has_deployment_ready_replicas(desired, object)
    ELSE has_cron_job_suspended_value(desired = 0, object)

\* C28: the wait of pause_service on a patched workload can return with the
\* condition met exactly when the workload satisfies the condition built for
\* the desired size of the call: ready replicas equal to desired_size for a
\* Deployment or StatefulSet, suspend equal to (desired_size == 0) for a CronJob.
C28_WaitAwaitsDesiredSize ==
    (pauses /\ pc = "wait") =>
        (ENABLED WaitOk <=> ConditionForDesired(Watched(listed[idx])))

\* The listed workloads after position i that the loop still has to patch.
LeftToPatch(i) == {j \in (i + 1)..Len(listed) : patches(listed[j])}

\* C29: a resume (unpause_if_needed) performs no convergence wait: it never
\* stands at a per-workload wait or at the pod-count poll and makes no request but
\* the listing and the patches; a patch that succeeds is followed at once by
\* the patch of the next listed workload that needs one, or, when none is left,
\* by the return of success.
C29_ResumeNoConvergenceWait ==
    /\ [](op = "unpause_if_needed" =>
            /\ pc \notin {"wait", "pods"}
            /\ api \subseteq {"list", "patch"}
            /\ podObs = None)
    /\ [][(op = "unpause_if_needed" /\ calls' = calls /\ pc = "patch"
            /\ <<pc, idx, ret>>' # <<pc, idx, ret>>) =>
            \/ /\ pc' = "done"
               /\ ret' \in {"KubeErr", "Elapsed"}
               /\ UNCHANGED <<replicas, suspend, patched>>
            \/ /\ listed[idx].id \in patched'
               /\ IF LeftToPatch(idx) = {}
                  THEN pc' = "done" /\ ret' = "Ok" /\ result'.ret = "Ok"
                  ELSE pc' = "patch" /\ idx' \in LeftToPatch(idx)]_vars

\* A resume has returned success for a Deployment it patched to one replica
\* while the Deployment shows no ready replica yet.
C29_Witness ==
    /\ op = "unpause_if_needed"
    /\ Kind = "Deployment"
    /\ Succeeded
    /\ patched # {}
    /\ \A w \in patched :
          /\ replicas[w] = 1
          /\ has_deployment_ready_replicas(0, Some(Object(w)))
          /\ pods[w] = 0

\* A call of one of the two entry points that are run under self.timeout.
TimedCall == op \in {"on_pause", "unpause_if_needed"}

\* The await points of the future a call runs.
AwaitPoints == {"list", "patch", "wait", "pods"}

\* What the caller is handed: success, a scale error made of the kube error, or a
\* scale error made of the timeout message of the entry point and self.timeout.
Outcome ==
    IF result.ret = "Ok" THEN "success"
    ELSE IF result.ret # "Err" THEN "none"
    ELSE IF result.error.raw_error = KubeErrMessage THEN "scale failure"
    ELSE IF result.error.raw_error =
               TimeoutMessage(IF op = "on_pause" THEN "scaling down service"
                              ELSE "un-pausing service", self.timeout)
    THEN "timeout"
    ELSE "none"

\* C30: every on_pause and unpause_if_needed call terminates.  A call that has
\* not returned stands at an await point, where the enclosing timeout is able to
\* end it; it does return, whatever the API server answers and whatever the
\* cluster does (a condition that never holds, a pod count that never matches);
\* and a call that has returned hands back exactly one of success (the future
\* returned Ok), scale failure (it returned a kube error) or timeout (the timer
\* elapsed).
C30_EveryCallTerminates ==
    /\ []((TimedCall /\ pc # "done") => (pc \in AwaitPoints /\ ENABLED Timeout))
    /\ []((TimedCall /\ pc = "done") =>
            /\ ret \in {"Ok", "KubeErr", "Elapsed"}
            /\ Outcome = (IF ret = "Ok" THEN "success"
                          ELSE IF ret = "KubeErr" THEN "scale failure" ELSE "timeout"))
    /\ [][(TimedCall /\ pc # "done" /\ pc' = "done" /\ ret' = "Elapsed") =>
            (pc \in AwaitPoints /\ UNCHANGED <<replicas, suspend, patched, api>>)]_vars
    /\ (TimedCall /\ pc # "done") ~> (pc = "done")

\* A pause whose pod poll kept seeing pods that never went away was ended by
\* the timeout; the caller is handed the timeout error.
C30_Witness ==
    /\ op = "on_pause"
    /\ pc = "done"
    /\ ret = "Elapsed"
    /\ Outcome = "timeout"
    /\ "pods" \in api
    /\ podObs # None /\ podObs # PodListError /\ Unwrap(podObs) > 0
    /\ \A i \in 1..Len(listed) : listed[i].id \in patched
    /\ Len(listed) > 0

\* The value the patch of the current call sets on a workload it has patched.
HoldsPatch(w) ==
    IF Kind = "CronJob" THEN suspend[w] = Params.patch.value
    ELSE replicas[w] = Params.patch.replicas

\* The current call has returned the kube error of a patch.
PatchFailed == TimedCall /\ pc = "done" /\ ret = "KubeErr" /\ "patch" \in api

\* C33: when the patch of the k-th listed workload fails during a pause or a
\* resume (the step leaves the workload unpatched and is not the timeout), the
\* call returns at that step with a scale failure and changes nothing; the workloads patched before it keep the patched value, neither it
\* nor any workload listed after it is patched, and no wait and no pod-count poll
\* follows.
C33_PatchFailureStops ==
    /\ [][(TimedCall /\ calls' = calls /\ pc = "patch" /\ <<pc, idx, ret>>' # <<pc, idx, ret>>
            /\ listed[idx].id \notin patched' /\ ret' # "Elapsed") =>
            /\ pc' = "done"
            /\ ret' = "KubeErr"
            /\ result'.ret = "Err"
            /\ result'.error.raw_error = KubeErrMessage
            /\ UNCHANGED <<replicas, suspend, patched, idx>>]_vars
    /\ [](PatchFailed =>
            /\ idx \in 1..Len(listed)
            /\ Outcome = "scale failure"
            /\ patched = PatchedUpTo(idx, FALSE)
            /\ \A w \in patched : HoldsPatch(w)
            /\ \A j \in idx..Len(listed) : listed[j].id \notin patched
            /\ "pods" \notin api
            /\ podObs = None)
    /\ [][(PatchFailed /\ calls' = calls) => UNCHANGED <<replicas, suspend, patched, api>>]_vars

\* A pause of two StatefulSets: the first was patched to 0 and waited for, the
\* patch of the second failed; it keeps its replicas and no pod was polled.
C33_Witness ==
    /\ op = "on_pause"
    /\ Kind = "StateFulSet"
    /\ PatchFailed
    /\ Len(listed) = 2
    /\ idx = 2
    /\ patched = {listed[1].id}
    /\ replicas[listed[1].id] = 0
    /\ replicas[listed[2].id] > 0
    /\ api = {"list", "patch", "wait"}

\* The pods in the scope of the call that carry the selector's label, whatever
\* workload they belong to.
PodsInScope ==
    IF self.is_cluster_wide_resources_allowed THEN LabelledPods ELSE LabelledPodsInTarget

\* C34: a pause of a Deployment or a StatefulSet returns success only in a state
\* where the pods in scope carrying the selector's label, of whatever workload
\* and whether or not the workload listing matched anything, are desired_size
\* many; while they are not, the call goes on polling until the enclosing
\* timeout ends it.
C34_PollCountsEveryPod ==
    [][(op = "on_pause" /\ Kind \in ScalableKinds /\ calls' = calls
        /\ pc # "done" /\ pc' = "done" /\ ret' = "Ok") =>
            /\ pc = "pods"
            /\ PodsInScope = desired]_vars

\* C35: the guard of a resume reads the replica count of the listed object's
\* status, an absent status (or, for a Deployment, an absent count) being 0: of
\* the listed Deployments / StatefulSets the loop has gone past, exactly those
\* whose listed status shows 0 are patched, each to 1 replica, whatever replica
\* count their spec asked for; the others keep their replica count.
C35_GuardReadsStatus ==
    /\ []((op = "unpause_if_needed" /\ Kind \in ScalableKinds /\ pc \in {"patch", "done"}) =>
            \A i \in 1..Len(listed) :
                /\ (i < idx) => (listed[i].id \in patched <=> ObservedReplicas(listed[i]) = 0)
                /\ (i = idx /\ pc = "patch") => ObservedReplicas(listed[i]) = 0
                /\ listed[i].id \in patched => replicas[listed[i].id] = 1)
    /\ [][(op = "unpause_if_needed" /\ calls' = calls /\ Kind \in ScalableKinds) =>
            \A i \in 1..Len(listed) :
                ObservedReplicas(listed[i]) # 0 =>
                    replicas'[listed[i].id] = replicas[listed[i].id]]_vars

\* Of two listed Deployments the first, whose status shows a replica, was left
\* alone; the second has no status and a spec asking for 2 replicas: the guard
\* let it through and the loop stands at its patch to 1.
C35_Witness ==
    /\ op = "unpause_if_needed"
    /\ Kind = "Deployment"
    /\ pc = "patch"
    /\ Len(listed) = 2
    /\ idx = 2
    /\ ObservedReplicas(listed[1]) > 0
    /\ patched = {}
    /\ listed[2].status = None
    /\ replicas[listed[2].id] = 2
    /\ Params.patch.replicas = 1

\* get_karpenter_node_pools_requirements has returned; its arguments and value.
RequirementsReturned ==
    /\ evaluation # None
    /\ Unwrap(evaluation).fn = "get_karpenter_node_pools_requirements"
    /\ Unwrap(evaluation).value # None
SpotEnabled == Unwrap(evaluation).args[1]
QoveryNodePools == Unwrap(evaluation).args[2]
Requirements == Unwrap(Unwrap(evaluation).value)

\* The custom requirements of the call: none when the node pools or their
\* requirements are absent.
Custom ==
    IF QoveryNodePools = None THEN <<>>
    ELSE IF Unwrap(QoveryNodePools).requirements = None THEN <<>>
    ELSE Unwrap(Unwrap(QoveryNodePools).requirements)

KeysOf(reqs) == [i \in 1..Len(reqs) |-> reqs[i].key]

\* C32: with the custom requirements absent or empty the result is the five
\* default requirements (arch, os, instance-category, instance-generation,
\* capacity-type, with the values the chart's tests expect); otherwise it is the
\* custom requirements in their order followed by one capacity-type requirement;
\* in both cases it holds a capacity-type `In` requirement whose values are
\* [spot, on-demand] with spot enabled and [on-demand] without.
C32_DefaultOrCustomRequirements ==
    RequirementsReturned =>
        /\ IF Custom = <<>>
           THEN /\ KeysOf(Requirements) =
                      <<"Arch", "Os", "InstanceCategory", "InstanceGeneration", "CapacityType">>
                /\ Requirements[1] = [key |-> "Arch", operator |-> Some("In"),
                                      values |-> <<"amd64", "arm64">>]
                /\ Requirements[2] = [key |-> "Os", operator |-> Some("In"),
                                      values |-> <<"linux">>]
                /\ Requirements[3].operator = Some("In")
                /\ Len(Requirements[3].values) = 13
                /\ Requirements[4] = [key |-> "InstanceGeneration", operator |-> Some("Gt"),
                                      values |-> <<"2">>]
           ELSE /\ Len(Requirements) = Len(Custom) + 1
                /\ SubSeq(Requirements, 1, Len(Custom)) = Custom
                /\ Requirements[Len(Requirements)].key = "CapacityType"
        /\ \E i \in 1..Len(Requirements) :
              Requirements[i] =
                  [key |-> "CapacityType", operator |-> Some("In"),
                   values |-> IF SpotEnabled THEN <<"spot", "on-demand">> ELSE <<"on-demand">>]

\* The custom requirements of the tests (instance-category, arch) with spot
\* enabled: the result is these two and the capacity-type requirement.
C32_Witness ==
    /\ RequirementsReturned
    /\ SpotEnabled
    /\ KeysOf(Custom) = <<"InstanceCategory", "Arch">>
    /\ KeysOf(Requirements) = <<"InstanceCategory", "Arch", "CapacityType">>
    /\ Requirements[3].values = <<"spot", "on-demand">>

\* C36: the result holds exactly one requirement with key capacity-type, also
\* when the custom requirements carry a capacity-type entry of their own.
C36_OneCapacityType ==
    RequirementsReturned =>
        Cardinality({i \in 1..Len(Requirements) : Requirements[i].key = "CapacityType"}) = 1

\* ------------------------------------------------ claims on create_gke_cluster
GkeCalls == {gke.calls[i].fn : i \in 1..Len(gke.calls)}
GkeFailed(fn) == \E i \in 1..Len(gke.calls) : gke.calls[i].fn = fn /\ ~gke.calls[i].ok
AfterTerraform ==
    {"update_kubeconfig_file", "configure_gcloud_for_cluster", "check_workers_on_create",
     "fs::read_to_string", "update_gke_vault_config", "deploy_charts"}
BucketStep == {"create_bucket", "update_bucket"}

\* C39: in a dry run create_gke_cluster makes none of the calls that follow the
\* Terraform create (kubeconfig update, gcloud configuration, worker check,
\* kubeconfig read, Vault push, chart deployment) and the step by which the
\* Terraform create succeeds returns success; in every mode, once a call of the
\* object-storage bucket step has failed the creation has returned that error
\* and no Terraform action (nor the rendering of its context) has been run.
C39_DryRunStopsAfterTerraform ==
    /\ [](gke.is_dry_run_deploy => (GkeCalls \cap AfterTerraform = {} /\ gke.pc \notin AfterTerraform))
    /\ [][(gke.is_dry_run_deploy /\ gke.pc = "TerraformInfraResources::create"
            /\ gke'.pc # gke.pc /\ ~GkeFailed("TerraformInfraResources::create")') =>
            (gke'.pc = "done" /\ gke'.result = [ret |-> "Ok"])]_vars
    /\ []((\E fn \in BucketStep : GkeFailed(fn)) =>
            /\ gke.pc = "done"
            /\ gke.result = GkeErr("new_object_storage_error")
            /\ GkeCalls \subseteq BucketStep)

\* A dry run has returned success: the bucket was created and updated, and the
\* Terraform create was the last call.
C39_Witness ==
    /\ gke.is_dry_run_deploy
    /\ gke.pc = "done"
    /\ gke.result = [ret |-> "Ok"]
    /\ [i \in 1..Len(gke.calls) |-> gke.calls[i].fn] =
          <<"create_bucket", "update_bucket", "to_infra_tera_context",
            "TerraformInfraResources::create">>

\* ------------------------------------------------------------------ C31
\* The rules a name violates, as the naming rules state them: its length is its
\* number of characters.
ViolatedRules(name) ==
    (IF Len(name) < min_length THEN {MinLengthNotReached} ELSE {})
    \cup (IF Len(name) > max_length THEN {MaxLengthReached} ELSE {})
    \cup (IF \E i \in 1..Len(name) : ~(is_alphanumeric(name[i]) \/ name[i] \in {"-", "."})
          THEN {AlphaNumericCharsDashesPeriodsOnly} ELSE {})

\* C31: check_repository_naming_rules returns None iff the name has length
\* between 4 and 54 inclusive and consists only of alphanumeric characters, '-'
\* and '.'; otherwise it returns exactly the set of violated rules, a bad
\* character together with a length violation when both occur; and
\* create_registry_namespace makes no API call when that set is non-empty.
C31_NamingRules ==
    /\ (scaleway_cr.fn = "check_repository_naming_rules" /\ scaleway_cr.pc = "done") =>
          LET name == scaleway_cr.arg
              returned == scaleway_cr.result.value
          IN /\ returned = None <=>
                  /\ Len(name) \in min_length..max_length
                  /\ \A i \in 1..Len(name) :
                        is_alphanumeric(name[i]) \/ name[i] \in {"-", "."}
             /\ returned # None => Unwrap(returned) = ViolatedRules(name)
    /\ (scaleway_cr.fn = "create_registry_namespace" /\ ViolatedRules(scaleway_cr.arg) # {}) =>
          scaleway_cr.requests = <<>>

\* ------------------------------------------------------------------ C37
DeleteImageReturns ==
    /\ scaleway_cr.fn = "delete_image"
    /\ scaleway_cr.pc # "done"
    /\ scaleway_cr'.pc = "done"

LastRequest == scaleway_cr'.requests[Len(scaleway_cr'.requests)]

\* C37: ContainerRegistry::delete_image returns success and issues no tag
\* deletion when the image (name and tag) is not found in the registry; every
\* other failure (tag listing error, tag not found, tag deletion error, request
\* timeout) is returned as a CannotDeleteImage error.
C37_DeleteImageAbsenceOnly ==
    [][DeleteImageReturns =>
         /\ (LastRequest = [request |-> "list_images", answer |-> "Ok"]) =>
               /\ scaleway_cr'.result.ret = "Ok"
               /\ \A i \in 1..Len(scaleway_cr'.requests) :
                     scaleway_cr'.requests[i].request # "delete_tag"
         /\ (\/ LastRequest.answer \in Failures
             \/ LastRequest = [request |-> "list_tags", answer |-> "Ok"]) =>
               /\ scaleway_cr'.result.ret = "Err"
               /\ scaleway_cr'.result.error = "CannotDeleteImage"]_vars

\* ------------------------------------------------------------------ C38
Attempts == scaleway_cr.requests

\* C38: image_exists makes one initial attempt plus at most 5 retries; it stops
\* at the first attempt that reports the image exists and returns true; an error
\* and a `does not exist` answer are both retried; false is returned only after
\* every attempt has failed.
C38_ImageExistsBoundedRetries ==
    scaleway_cr.fn = "image_exists" =>
        /\ Len(Attempts) <= 1 + take
        /\ \A i \in 1..Len(Attempts) :
              Attempts[i].answer = "Ok(true)" =>
                  /\ i = Len(Attempts)
                  /\ scaleway_cr.pc = "done"
                  /\ scaleway_cr.result.value = TRUE
        /\ scaleway_cr.pc = "done" =>
              \/ /\ scaleway_cr.result.value = TRUE
                 /\ Attempts[Len(Attempts)].answer = "Ok(true)"
              \/ /\ scaleway_cr.result.value = FALSE
                 /\ Len(Attempts) = 1 + take
                 /\ \A i \in 1..Len(Attempts) : Attempts[i].answer \in {"Ok(false)", "Err"}

C38_Witness ==
    /\ scaleway_cr.fn = "image_exists"
    /\ scaleway_cr.pc = "done"
    /\ scaleway_cr.result.value = TRUE
    /\ Len(Attempts) = 1 + take
    /\ \E i, j \in 1..take : Attempts[i].answer = "Err" /\ Attempts[j].answer = "Ok(false)"

====
